---- MODULE Spec2Model ----
(***************************************************************************)
(* GoDash: the top-level application state machine (main.go), the todo,    *)
(* notes and calendar panels, and the calendar month cache with its        *)
(* cooldown-gated fetches.  One action per message the Bubble Tea event    *)
(* loop hands to model.Update, plus the environment steps (time passing,   *)
(* a fetch command finishing, the OAuth token appearing on disk).          *)
(*                                                                         *)
(* Strings are sequences of one-character strings.  Dates are day numbers  *)
(* of a scaled calendar of NumMonths months of DaysPerMonth days.          *)
(* External widgets (bubbles textarea/textinput/list, bubble-datepicker)   *)
(* are modelled by the documented effect of the calls the source makes.    *)
(***************************************************************************)
EXTENDS Integers, Sequences, FiniteSets, TLC

\* ---------------------------------------------------------------- bounds
NumMonths == 3
DaysPerMonth == 2
MaxElapsed == 6
MaxLen == 1
MaxItems == 2
\* the ports of the candidate range that are modelled
NumPorts == 2
\* the goroutines that may be blocked in WaitForAuth at a time
MaxWaiters == 1
\* the longest note title that is named
MaxTitle == 3
\* the wall clock when the program starts
StartTime == 10

\* ------------------------------------------------------ program constants
fetchCoolDown == 5

focusList == 0
focusNotes == 1
focusCalendar == 2

Months == 0 .. (NumMonths - 1)
Dates == 0 .. (NumMonths * DaysPerMonth - 1)

\* time.Time.Format("2006-01"): the month key of a date
MonthKey(d) == d \div DaysPerMonth

FirstDay(k) == k * DaysPerMonth

\* ------------------------------------------------- authorization flow
\* portRange, of which the first NumPorts ports are modelled
portRange == [i \in 1 .. NumPorts |-> 8079 + i]
Ports == {portRange[i] : i \in 1 .. NumPorts}

\* the loop of tryStartCallbackServer: the first port of the range that
\* net.Listen can bind, 0 when there is none
firstFreePort_Last(busy) ==
    IF Ports \subseteq busy THEN 0
    ELSE portRange[CHOOSE i \in 1 .. NumPorts :
                     /\ portRange[i] \notin busy
                     /\ \A j \in (i + 1) .. NumPorts : portRange[j] \in busy]

firstFreePort(busy) ==
    IF Ports \subseteq busy THEN 0
    ELSE portRange[CHOOSE i \in 1 .. NumPorts :
                     /\ portRange[i] \notin busy
                     /\ \A j \in 1 .. (i - 1) : portRange[j] \in busy]

\* getConfig: the redirect target of the OAuth configuration
OutOfBand == [scheme |-> "urn:ietf:wg:oauth:2.0:oob", port |-> 0]
Localhost(port) == [scheme |-> "http://localhost:%d/callback", port |-> port]
getConfig(useManualFlow, serverPort) ==
    IF useManualFlow THEN OutOfBand ELSE Localhost(serverPort)

\* the package state before StartAuthFlow is called: no goroutine, the
\* channels of capacity 1 empty, serverPort 0, no URL generated
AuthIdle ==
    [server |-> "idle", serverPort |-> 0, busy |-> {},
     serverStarted |-> 0, authComplete |-> 0, authError |-> 0,
     waiters |-> 0, decided |-> FALSE, redirect |-> [scheme |-> "", port |-> 0],
     signalled |-> FALSE]

\* the package state once StartAuthFlow has returned: in the manual flow no
\* port could be bound, in the automatic flow the server listens on the
\* first port of the range
AuthAfterStart(authorized, useManualFlow) ==
    IF authorized THEN AuthIdle
    ELSE IF useManualFlow
       THEN [AuthIdle EXCEPT !.server = "none", !.busy = Ports, !.decided = TRUE,
                             !.redirect = getConfig(TRUE, 0)]
       ELSE [AuthIdle EXCEPT !.server = "serving",
                             !.serverPort = firstFreePort({}),
                             !.decided = TRUE,
                             !.redirect = getConfig(FALSE, firstFreePort({}))]

\* a send on, and a receive from, a channel of capacity 1
chanSend(a, ch) == [a EXCEPT ![ch] = 1]
chanRecv(a, ch) == [a EXCEPT ![ch] = 0]

\* the channels a select over authComplete and authError can receive from
Ready(a) == {ch \in {"authComplete", "authError"} : a[ch] = 1}

\* ------------------------------------------------------------ key names
CharKeys == {"o", "i", "e", "h", "l", "y", "n", "q", " "}

\* key.Matches(msg, binding): the binding is enabled and lists the key
Matches(key, enabled, bound) == enabled /\ key \in bound

\* ------------------------------------------------------------- files
\* a file is missing or holds one JSON value
Missing == <<>>
File(json) == <<json>>

\* --------------------------------------------------- calendar event data
\* calendar.Event.Start: DateTime (RFC3339) or Date (all-day); each string is
\* empty, unparseable, or denotes a day
StrEmpty == [kind |-> "empty", day |-> 0]
StrBad == [kind |-> "bad", day |-> 0]
StrDay(d) == [kind |-> "day", day |-> d]

Event(s, dt, d) == [Summary |-> s, Start |-> [DateTime |-> dt, Date |-> d]]

\* json.Marshal of an event: the fields tagged omitempty are left out when
\* they are the empty string
EventJSON(e) ==
    LET start == [k \in {k \in {"dateTime", "date"} :
                            (IF k = "dateTime" THEN e.Start.DateTime
                                               ELSE e.Start.Date) # StrEmpty}
                    |-> IF k = "dateTime" THEN e.Start.DateTime ELSE e.Start.Date]
    IN  [k \in (IF e.Summary = "" THEN {} ELSE {"summary"}) \cup {"start"}
           |-> IF k = "summary" THEN e.Summary ELSE start]

\* json.Unmarshal of an event: a field that is absent is the empty string
EventOfJSON(j) ==
    Event(IF "summary" \in DOMAIN j THEN j["summary"] ELSE "",
          IF "dateTime" \in DOMAIN j["start"] THEN j["start"]["dateTime"] ELSE StrEmpty,
          IF "date" \in DOMAIN j["start"] THEN j["start"]["date"] ELSE StrEmpty)

\* SaveCalendarCache: json.MarshalIndent of the map and os.WriteFile
MarshalCache(cache) ==
    File([k \in DOMAIN cache |->
            [i \in 1 .. Len(cache[k]) |-> EventJSON(cache[k][i])]])

\* LoadCalendarCache: a missing file is an empty cache, otherwise the map is
\* unmarshalled
LoadCalendarCache(file) ==
    IF file = Missing THEN <<>>
    ELSE [k \in DOMAIN file[1] |->
            [i \in 1 .. Len(file[1][k]) |-> EventOfJSON(file[1][k][i])]]

\* what GetCalendarEventsForMonth may return for month k: the remote
\* calendar holds no event in the even months and three in the odd ones
Responses(k) ==
    IF k % 2 = 0
       THEN { <<>> }
       ELSE { << Event("t", StrDay(FirstDay(k)), StrEmpty),
                 Event("d", StrEmpty, StrDay(FirstDay(k) + 1)),
                 Event("u", StrEmpty, StrBad) >> }

\* time.Parse of an event start string
ParseOk(s) == s.kind = "day"

\* a filter that keeps every event of the month whose start parses
EventOnDay_AnyDay(event, sel) ==
    LET s == IF event.Start.DateTime # StrEmpty
                THEN event.Start.DateTime
                ELSE event.Start.Date
    IN  ParseOk(s)

EventOnDay(event, sel) ==
    LET s == IF event.Start.DateTime # StrEmpty
                THEN event.Start.DateTime
                ELSE event.Start.Date
    IN  ParseOk(s) /\ s.day = sel

\* Model.filterEventsForSelectedDate
filterEventsForSelectedDate(m) ==
    LET monthKey == MonthKey(m.selectedDate)
    IN  IF monthKey \in DOMAIN m.cachedEvents
           THEN [m EXCEPT !.events =
                    SelectSeq(m.cachedEvents[monthKey],
                              LAMBDA e : EventOnDay(e, m.selectedDate))]
           ELSE [m EXCEPT !.events = <<>>]

\* map assignment cachedEvents[k] = v
MapPut(f, k, v) == [x \in (DOMAIN f) \cup {k} |-> IF x = k THEN v ELSE f[x]]

\* calendar.Model.Update, case EventsMsg
calendarEventsMsg(m, monthKey, evs) ==
    filterEventsForSelectedDate(
        [m EXCEPT !.cachedEvents = MapPut(m.cachedEvents, monthKey, evs),
                  !.fetchingMonths[monthKey] = FALSE,
                  !.loading = FALSE,
                  !.state = "StateReady"])

\* calendarEventsErrMsg where a failed fetch leaves an empty month behind
calendarEventsErrMsg_StoresEmptyMonth(m, monthKey, e) ==
    LET m1 == [m EXCEPT !.fetchingMonths[monthKey] = FALSE,
                        !.cachedEvents = MapPut(m.cachedEvents, monthKey, <<>>)]
    IN  IF e = "ErrAuthRequired"
           THEN [m1 EXCEPT !.state = "StateIdle", !.loading = FALSE]
           ELSE [m1 EXCEPT !.err = e, !.loading = FALSE]

\* calendar.Model.Update, case EventsErrMsg
calendarEventsErrMsg(m, monthKey, e) ==
    LET m1 == [m EXCEPT !.fetchingMonths[monthKey] = FALSE]
    IN  IF e = "ErrAuthRequired"
           THEN [m1 EXCEPT !.state = "StateIdle", !.loading = FALSE]
           ELSE [m1 EXCEPT !.err = e, !.loading = FALSE]

\* datepicker.Model.Update with FocusCalendar: the horizontal arrows move by a
\* day
DatePickerUpdate(t, key) ==
    CASE key \in {"left", "h"} -> t - 1
      [] key \in {"right", "l"} -> t + 1
      [] OTHER -> t

\* calendarDateChanged without the test of fetchingMonths
calendarDateChanged_NoInFlightTest(m, dp, t) ==
    IF dp # m.selectedDate
       THEN LET m1 == [m EXCEPT !.selectedDate = dp]
                monthKey == MonthKey(dp)
            IN  IF monthKey \in DOMAIN m1.cachedEvents
                   THEN [m |-> [filterEventsForSelectedDate(m1)
                                   EXCEPT !.loading = FALSE],
                         fetch |-> {}]
                   ELSE IF t - m1.lastFetchTime > fetchCoolDown
                           THEN [m |-> [m1 EXCEPT !.loading = TRUE,
                                                  !.fetchingMonths[monthKey] = TRUE,
                                                  !.lastFetchTime = t],
                                 fetch |-> {monthKey}]
                           ELSE [m |-> m1, fetch |-> {}]
       ELSE [m |-> m, fetch |-> {}]

\* calendarDateChanged where a cached month restarts the cooldown
calendarDateChanged_CachedRestartsCooldown(m, dp, t) ==
    IF dp # m.selectedDate
       THEN LET m1 == [m EXCEPT !.selectedDate = dp]
                monthKey == MonthKey(dp)
            IN  IF monthKey \in DOMAIN m1.cachedEvents
                   THEN [m |-> [filterEventsForSelectedDate(m1)
                                   EXCEPT !.loading = FALSE, !.lastFetchTime = t],
                         fetch |-> {}]
                   ELSE IF ~m1.fetchingMonths[monthKey]
                           /\ t - m1.lastFetchTime > fetchCoolDown
                           THEN [m |-> [m1 EXCEPT !.loading = TRUE,
                                                  !.fetchingMonths[monthKey] = TRUE,
                                                  !.lastFetchTime = t],
                                 fetch |-> {monthKey}]
                           ELSE [m |-> m1, fetch |-> {}]
       ELSE [m |-> m, fetch |-> {}]

\* calendarDateChanged without the cooldown test
calendarDateChanged_NoCooldown(m, dp, t) ==
    IF dp # m.selectedDate
       THEN LET m1 == [m EXCEPT !.selectedDate = dp]
                monthKey == MonthKey(dp)
            IN  IF monthKey \in DOMAIN m1.cachedEvents
                   THEN [m |-> [filterEventsForSelectedDate(m1)
                                   EXCEPT !.loading = FALSE],
                         fetch |-> {}]
                   ELSE IF ~m1.fetchingMonths[monthKey]
                           THEN [m |-> [m1 EXCEPT !.loading = TRUE,
                                                  !.fetchingMonths[monthKey] = TRUE,
                                                  !.lastFetchTime = t],
                                 fetch |-> {monthKey}]
                           ELSE [m |-> m1, fetch |-> {}]
       ELSE [m |-> m, fetch |-> {}]

\* calendar.Model.Update, focused and StateReady: the selected date follows the
\* date picker; result is the new panel and the months a fetch was started for
calendarDateChanged(m, dp, t) ==
    IF dp # m.selectedDate
       THEN LET m1 == [m EXCEPT !.selectedDate = dp]
                monthKey == MonthKey(dp)
            IN  IF monthKey \in DOMAIN m1.cachedEvents
                   THEN [m |-> [filterEventsForSelectedDate(m1)
                                   EXCEPT !.loading = FALSE],
                         fetch |-> {}]
                   ELSE IF ~m1.fetchingMonths[monthKey]
                           /\ t - m1.lastFetchTime > fetchCoolDown
                           THEN [m |-> [m1 EXCEPT !.loading = TRUE,
                                                  !.fetchingMonths[monthKey] = TRUE,
                                                  !.lastFetchTime = t],
                                 fetch |-> {monthKey}]
                           ELSE [m |-> m1, fetch |-> {}]
       ELSE [m |-> m, fetch |-> {}]

\* calendar.Model.Update for a message that is neither a fetch result nor a
\* weather result
calendarUpdate(m, key, focused, t) ==
    IF focused /\ m.state = "StateReady"
       THEN calendarDateChanged(m, DatePickerUpdate(m.selectedDate, key), t)
       ELSE [m |-> m, fetch |-> {}]


\* ------------------------------------------------------------- strings
\* textinput.Model.Update / textarea.Model.Update on a key: a printable key
\* is appended up to the character limit, backspace removes the last one
TextUpdate(v, key) ==
    IF key \in CharKeys
       THEN IF Len(v) < MaxLen THEN Append(v, key) ELSE v
       ELSE IF key = "backspace" /\ Len(v) > 0
               THEN SubSeq(v, 1, Len(v) - 1)
               ELSE v

CharCode(c) ==
    CASE c = "\n" -> 10 [] c = " " -> 32 [] c = "!" -> 33 [] c = "#" -> 35
      [] c = "-" -> 45 [] c = "0" -> 48 [] c = "1" -> 49 [] c = "2" -> 50
      [] c = "d" -> 100 [] c = "e" -> 101 [] c = "h" -> 104 [] c = "i" -> 105
      [] c = "k" -> 107 [] c = "l" -> 108 [] c = "n" -> 110 [] c = "o" -> 111
      [] c = "q" -> 113 [] c = "t" -> 116 [] c = "u" -> 117 [] c = "w" -> 119
      [] c = "y" -> 121 [] OTHER -> 233

RECURSIVE StrLess(_, _)
StrLess(a, b) ==
    IF b = <<>> THEN FALSE
    ELSE IF a = <<>> THEN TRUE
    ELSE IF CharCode(Head(a)) # CharCode(Head(b))
            THEN CharCode(Head(a)) < CharCode(Head(b))
            ELSE StrLess(Tail(a), Tail(b))

\* os.ReadDir: the entries of a directory sorted by file name
RECURSIVE ReadDir(_)
ReadDir(names) ==
    IF names = {} THEN <<>>
    ELSE LET first == CHOOSE x \in names : \A y \in names \ {x} : StrLess(x, y)
         IN  <<first>> \o ReadDir(names \ {first})

RemoveAt(s, i) == SubSeq(s, 1, i - 1) \o SubSeq(s, i + 1, Len(s))

\* list.Model.Update on a key while browsing: the cursor moves and is kept
\* inside the items
ListUpdate(items, index, key) ==
    LET moved == CASE key = "up" -> index - 1
                   [] key = "down" -> index + 1
                   [] OTHER -> index
        top == IF Len(items) = 0 THEN 0 ELSE Len(items) - 1
    IN  IF moved < 0 THEN 0 ELSE IF moved > top THEN top ELSE moved

\* list.Model.SelectedItem succeeds
HasSelection(items, index) == index >= 0 /\ index < Len(items)

\* ---------------------------------------------------------- todo panel
task(title) == [Title |-> title, Description |-> <<>>, Done |-> FALSE]

\* a confirmed new task put in front of the list
addTask_AtFront(items, text) ==
    IF text # <<>> THEN <<task(text)>> \o items ELSE items

\* todo.Model.Update, confirm while Adding: List.InsertItem at the end
addTask(items, text) ==
    IF text # <<>> THEN Append(items, task(text)) ELSE items

\* a confirmed edit that also marks the task as not done
editTask_ClearsDone(items, index, text) ==
    IF HasSelection(items, index)
       THEN [items EXCEPT ![index + 1] = task(text)]
       ELSE items

\* todo.Model.Update, confirm while Editing: List.SetItem of the selected
\* task with its new title
editTask(items, index, text) ==
    IF HasSelection(items, index)
       THEN [items EXCEPT ![index + 1].Title = text]
       ELSE items

\* todo.Model.Update, state Adding or Editing
todoUpdateEntry(m, key) ==
    LET m1 ==
          IF key \in {"ctrl+s", "enter"}
             THEN LET items ==
                        IF m.State = "ListStateAdding"
                           THEN addTask(m.Items, m.TextInput)
                           ELSE editTask(m.Items, m.Index, m.TextInput)
                  IN  [m EXCEPT !.Items = items, !.TextInput = <<>>,
                                !.State = "ListStateDefault"]
             ELSE IF key = "esc"
                     THEN [m EXCEPT !.State = "ListStateDefault", !.TextInput = <<>>]
                     ELSE m
    IN  [m |-> [m1 EXCEPT !.TextInput = TextUpdate(m1.TextInput, key)],
         saved |-> key \in {"ctrl+s", "enter"}]

\* a toggle that marks the selected task done whatever it was
toggleTask_SetsDone(items, index) == [items EXCEPT ![index + 1].Done = TRUE]

\* todo.Model.Update, case Toggle: the selected task with Done negated
toggleTask(items, index) == [items EXCEPT ![index + 1].Done = ~@]

\* todo.Model.Update, state Default
todoUpdateDefault(m, key) ==
    IF key = "o"
       THEN [m |-> [m EXCEPT !.State = "ListStateAdding"], saved |-> FALSE]
    ELSE IF key = "i" /\ HasSelection(m.Items, m.Index)
       THEN [m |-> [m EXCEPT !.State = "ListStateEditing",
                             !.TextInput = m.Items[m.Index + 1].Title],
             saved |-> FALSE]
    ELSE LET toggled == key = " " /\ HasSelection(m.Items, m.Index)
             deleted == key = "ctrl+d" /\ Len(m.Items) > 0
             items == IF toggled
                         THEN toggleTask(m.Items, m.Index)
                         ELSE IF deleted /\ HasSelection(m.Items, m.Index)
                                 THEN RemoveAt(m.Items, m.Index + 1)
                                 ELSE m.Items
         IN  [m |-> [m EXCEPT !.Items = items,
                              !.Index = ListUpdate(items, m.Index, key)],
              saved |-> toggled \/ deleted]

\* todo.Model.Update on a key message, acting whether it is focused or not
todoUpdate_IgnoresFocus(m, key, focused) ==
    IF m.State \in {"ListStateAdding", "ListStateEditing"}
       THEN todoUpdateEntry(m, key)
       ELSE todoUpdateDefault(m, key)

\* todo.Model.Update on a key message
todoUpdate(m, key, focused) ==
    IF ~focused THEN [m |-> m, saved |-> FALSE]
    ELSE IF m.State \in {"ListStateAdding", "ListStateEditing"}
            THEN todoUpdateEntry(m, key)
            ELSE todoUpdateDefault(m, key)

\* json.Marshal of a task, by its field tags
TaskJSON(t) ==
    [title |-> t.Title, description |-> t.Description, done |-> t.Done]

\* a save that writes every task as not done
saveTasks_DropsDone(items) ==
    File([i \in 1 .. Len(items) |-> TaskJSON([items[i] EXCEPT !.Done = FALSE])])

\* saveTasks: the file is rewritten with every item of the list, in order
saveTasks(items) == File([i \in 1 .. Len(items) |-> TaskJSON(items[i])])

\* the tasks a missing task file is created with, each title abbreviated to
\* the key it names
defaultTasks ==
    <<task(<<"w">>), task(<<"o">>), task(<<"i">>), task(<<"a">>),
      task(<<"s">>), task(<<"e">>), task(<<"c">>), task(<<"d">>)>>

\* loadTasks: the default tasks when the file is missing, otherwise the
\* unmarshalled array
loadTasks(file) ==
    IF file = Missing THEN defaultTasks
    ELSE [i \in 1 .. Len(file[1]) |->
            [Title |-> file[1][i].title,
             Description |-> file[1][i].description,
             Done |-> file[1][i].done]]

\* the task file after loadTasks: a missing one is created
tasksFileLoaded(file) ==
    IF file = Missing THEN saveTasks(defaultTasks) ELSE file

\* ---------------------------------------------------------- notes panel
\* the characters the pattern [^a-zA-Z0-9-] leaves in place
AsciiLetters == {"d", "e", "h", "i", "k", "l", "n", "o", "q", "t", "u", "w", "y"}
Digits == {"0", "1", "2"}
FilenameChars == AsciiLetters \cup Digits \cup {"-"}

\* sanitizeFilename: spaces become hyphens, then every character that is not
\* a letter, a digit or a hyphen is removed
RECURSIVE sanitizeChars(_)
sanitizeChars(name) ==
    IF name = <<>> THEN <<>>
    ELSE LET c == IF Head(name) = " " THEN "-" ELSE Head(name)
         IN  (IF c \in FilenameChars THEN <<c>> ELSE <<>>)
             \o sanitizeChars(Tail(name))

\* sanitizeFilename; an empty result is replaced by "untitled-note"
sanitizeFilename(name) ==
    LET sanitized == sanitizeChars(name)
    IN  IF sanitized = <<>>
           THEN <<"u", "n", "t", "i", "t", "l", "e", "d", "-", "n", "o", "t", "e">>
           ELSE sanitized

RECURSIVE hyphensToSpaces(_)
hyphensToSpaces(name) ==
    IF name = <<>> THEN <<>>
    ELSE (IF Head(name) = "-" THEN <<" ">> ELSE <<Head(name)>>)
         \o hyphensToSpaces(Tail(name))

note(title, path) == [title |-> title, path |-> path]

\* a new note that starts as an empty file
starterDocument_Empty(title) == <<>>

\* the document a new note starts with: "# " + title + "\n\n"
starterDocument(title) == <<"#", " ">> \o title \o <<"\n", "\n">>

\* the settings record and the one a missing settings file is created with
Settings(location, created) ==
    [Location |-> location, DefaultNotesCreated |-> created]
DefaultSettings == Settings(<<"Athens">>, FALSE)

\* config.SaveSettings: json.MarshalIndent by the field tags, os.WriteFile
SaveSettings(settings) ==
    File([location |-> settings.Location,
          default_notes_created |-> settings.DefaultNotesCreated])

\* a load that keeps an empty location
LoadSettings_KeepsEmpty(file) ==
    IF file = Missing THEN DefaultSettings
    ELSE Settings(file[1].location, file[1].default_notes_created)

\* config.LoadSettings: the default settings when the file is missing,
\* otherwise the unmarshalled record, its location replaced by the default
\* one when it is empty
LoadSettings(file) ==
    IF file = Missing THEN DefaultSettings
    ELSE LET settings == Settings(file[1].location, file[1].default_notes_created)
         IN  IF settings.Location = <<>>
                THEN [settings EXCEPT !.Location = <<"Athens">>]
                ELSE settings

\* the settings file after LoadSettings: a missing one is created
settingsFileLoaded(file) ==
    IF file = Missing THEN SaveSettings(DefaultSettings) ELSE file

\* the titles of the two notes a first start creates, abbreviated to the
\* two-digit number and one letter
welcomeTitle == <<"0", "1", " ", "w">>
keybindingsTitle == <<"0", "2", " ", "k">>

\* createDefaultNotes: both notes are written, each under its sanitized title
createDefaultNotes(fs) ==
    MapPut(MapPut(fs, sanitizeFilename(welcomeTitle),
                  <<"#", " ">> \o welcomeTitle),
           sanitizeFilename(keybindingsTitle),
           <<"#", " ">> \o keybindingsTitle)

\* the title shown for a file: hyphens become spaces and a leading number
\* followed by a space is dropped (the pattern ^\d+\s)
RECURSIVE dropDigits(_)
dropDigits(title) ==
    IF title # <<>> /\ Head(title) \in Digits THEN dropDigits(Tail(title))
    ELSE title

stripNumericPrefix(title) ==
    LET rest == dropDigits(title)
    IN  IF rest # title /\ rest # <<>> /\ Head(rest) = " "
           THEN Tail(rest)
           ELSE title

\* a title that keeps its leading number
displayTitle_KeepsNumber(name) == hyphensToSpaces(name)

displayTitle(name) == stripNumericPrefix(hyphensToSpaces(name))

\* the list entries of loadNotes: one per markdown file, in directory order
listNotes(fs) ==
    LET dir == ReadDir(DOMAIN fs)
    IN  [i \in 1 .. Len(dir) |-> note(displayTitle(dir[i]), dir[i])]

\* a load that seeds whenever the directory holds no note
seedsOnLoad_IgnoresFlag(fs, file) == DOMAIN fs = {}

\* loadNotes seeds the directory when it holds no markdown file and the
\* persisted settings do not record an earlier seeding
seedsOnLoad(fs, file) ==
    DOMAIN fs = {} /\ ~LoadSettings(file).DefaultNotesCreated

\* loadNotes: the entries, the notes directory and the settings file after it
loadNotes(fs, file) ==
    LET seed == seedsOnLoad(fs, file)
        fs1 == IF seed THEN createDefaultNotes(fs) ELSE fs
    IN  [notes |-> listNotes(fs1),
         fs |-> fs1,
         sf |-> IF seed
                   THEN SaveSettings([LoadSettings(file)
                                        EXCEPT !.DefaultNotesCreated = TRUE])
                   ELSE IF DOMAIN fs = {} THEN settingsFileLoaded(file)
                   ELSE file]

\* notes.Model.Reload
notesReload(m, loaded) == [m EXCEPT !.Items = loaded.notes]

\* notes.Model.Update on a key message; result: the panel, the files, and the
\* EditNoteMsg the returned command produces
notesUpdate(m, fs, key, focused) ==
    LET same == [m |-> m, fs |-> fs, edit |-> {}]
    IN
    IF ~focused THEN same
    ELSE IF m.State = "NoteStateCreate"
       THEN LET m1 ==
                  IF key = "esc"
                     THEN [m |-> [m EXCEPT !.State = "NoteStateList", !.TextInput = <<>>],
                           fs |-> fs]
                  ELSE IF key = "enter" /\ m.TextInput # <<>>
                     THEN LET filePath == sanitizeFilename(m.TextInput)
                          IN  [m |-> [m EXCEPT
                                        !.Items = Append(m.Items, note(m.TextInput, filePath)),
                                        !.TextInput = <<>>,
                                        !.State = "NoteStateList"],
                               fs |-> MapPut(fs, filePath, starterDocument(m.TextInput))]
                  ELSE [m |-> m, fs |-> fs]
            IN  [m |-> [m1.m EXCEPT !.TextInput = TextUpdate(m1.m.TextInput, key)],
                 fs |-> m1.fs, edit |-> {}]
    ELSE IF key = "o"
       THEN [m |-> [m EXCEPT !.State = "NoteStateCreate"], fs |-> fs, edit |-> {}]
    ELSE IF key = "enter" /\ HasSelection(m.Items, m.Index)
       THEN LET selected == m.Items[m.Index + 1]
                content == IF selected.path \in DOMAIN fs
                              THEN fs[selected.path]
                              ELSE <<"Could not read file">>
            IN  [m |-> m, fs |-> fs,
                 edit |-> {[Path |-> selected.path, Content |-> content]}]
    ELSE LET deleted == key = "ctrl+d" /\ Len(m.Items) > 0
                          /\ HasSelection(m.Items, m.Index)
             items == IF deleted THEN RemoveAt(m.Items, m.Index + 1) ELSE m.Items
             fs1 == IF deleted
                       THEN [p \in (DOMAIN fs) \ {m.Items[m.Index + 1].path} |-> fs[p]]
                       ELSE fs
         IN  [m |-> [m EXCEPT !.Items = items,
                              !.Index = ListUpdate(items, m.Index, key)],
              fs |-> fs1, edit |-> {}]


\* ------------------------------------------------------ top-level model
\* glamour TermRenderer.Render: the rendered form of a markdown text
Render(content) == [rendered |-> content]

\* textarea.Model.Update on a key: as a text input, and enter starts a line
TextAreaUpdate(v, key) ==
    IF key = "enter"
       THEN IF Len(v) < MaxLen THEN Append(v, "\n") ELSE v
       ELSE TextUpdate(v, key)

\* a message that is not a key message matches no binding and types nothing
KeyOf(msg) == IF msg.type = "KeyMsg" THEN msg.key ELSE ""

\* model.updateKeybindings: the bindings main.go itself matches against
updateKeybindings(m) ==
    IF m.state = "stateEditingNote"
       THEN [m EXCEPT !.keys =
                [@ EXCEPT !.Confirm = FALSE, !.OpenLink = FALSE,
                          !.OpenCalendar = FALSE, !.CycleFocus = FALSE,
                          !.ShowHelp = FALSE,
                          !.SaveNote = (m.noteEditorMode = "noteSourceMode"),
                          !.ToggleEditMode = TRUE, !.Cancel = TRUE,
                          !.Quit = TRUE]]
       ELSE LET isSetup == m.state \in {"stateSetupWeather", "stateSetupCalendar"}
                entering == m.todo.State \in {"ListStateAdding", "ListStateEditing"}
            IN  [m EXCEPT !.keys =
                   [@ EXCEPT !.Confirm = (~isSetup /\ m.focus = focusList /\ entering)
                                          \/ isSetup,
                             !.OpenLink = isSetup,
                             !.OpenCalendar = ~isSetup /\ m.focus = focusCalendar,
                             !.CycleFocus = ~isSetup,
                             !.SaveNote = FALSE,
                             !.Cancel = ~isSetup,
                             !.ShowHelp = TRUE,
                             !.Quit = TRUE]]

\* what a handler returns: the model, the notes directory, the token file,
\* whether the task file was rewritten, and the commands: months to fetch,
\* EditNoteMsg to deliver, a background SaveCalendarCache, tea.Quit, and the
\* number of clock.Tick commands
Ret(m, env) ==
    [m |-> m, fs |-> env.fs, sf |-> env.sf, token |-> env.token, saved |-> FALSE,
     fetch |-> {}, edit |-> {}, save |-> FALSE, quit |-> FALSE, tick |-> 0,
     wait |-> 0]

\* model.updateNoteEditor, case Cancel, where leaving source mode always
\* asks for confirmation
noteEditorCancel_AlwaysAsks(m, env) ==
    IF m.noteEditorMode = "noteSourceMode"
       THEN Ret(updateKeybindings(
                  [m EXCEPT !.hasUnsavedChanges = TRUE,
                            !.state = "stateExitConfirmation",
                            !.confirmationChoice = 1]), env)
       ELSE Ret(updateKeybindings([m EXCEPT !.state = "stateDashboard"]), env)

\* model.updateNoteEditor, case Cancel
noteEditorCancel(m, env) ==
    IF m.noteEditorMode = "noteSourceMode"
       THEN LET currentContent == m.noteEditor
            IN  IF currentContent # m.originalContent
                   THEN Ret(updateKeybindings(
                              [m EXCEPT !.hasUnsavedChanges = TRUE,
                                        !.state = "stateExitConfirmation",
                                        !.confirmationChoice = 1]), env)
                   ELSE Ret(updateKeybindings(
                              [m EXCEPT !.noteEditorMode = "notePreviewMode",
                                        !.noteContent = currentContent,
                                        !.noteViewer = Render(currentContent)]), env)
       ELSE Ret(updateKeybindings([m EXCEPT !.state = "stateDashboard"]), env)

\* model.updateNoteEditor
updateNoteEditor(m, msg, env) ==
    LET key == KeyOf(msg)
        source == m.noteEditorMode = "noteSourceMode"
    IN
    IF Matches(key, m.keys.ToggleEditMode, {"i"}) /\ ~source
       THEN Ret(updateKeybindings([m EXCEPT !.noteEditorMode = "noteSourceMode"]), env)
    ELSE IF ~Matches(key, m.keys.ToggleEditMode, {"i"})
            /\ Matches(key, m.keys.SaveNote, {"ctrl+s"})
       THEN IF source
               THEN IF ~env.writeOk
                       THEN Ret([m EXCEPT !.err = "could not save note"], env)
                       ELSE LET content == m.noteEditor
                                fs1 == MapPut(env.fs, m.editingNotePath, content)
                                loaded == loadNotes(fs1, env.sf)
                            IN  [Ret([m EXCEPT !.noteContent = content,
                                               !.notes = notesReload(m.notes, loaded),
                                               !.saveMessageTimer = 3,
                                               !.hasUnsavedChanges = FALSE,
                                               !.originalContent = content,
                                               !.noteViewer = Render(content)], env)
                                   EXCEPT !.fs = loaded.fs, !.sf = loaded.sf]
               ELSE Ret(m, env)
    ELSE IF ~Matches(key, m.keys.ToggleEditMode, {"i"})
            /\ Matches(key, m.keys.Cancel, {"esc"})
       THEN noteEditorCancel(m, env)
    ELSE IF source
       THEN LET v == TextAreaUpdate(m.noteEditor, key)
            IN  Ret([m EXCEPT !.noteEditor = v,
                              !.hasUnsavedChanges = (v # m.originalContent)], env)
       ELSE Ret(m, env)

\* updateExitConfirmation where Esc discards the edits as Yes does
updateExitConfirmation_EscDiscards(m, msg, env) ==
    LET key == KeyOf(msg)
        back == updateKeybindings([m EXCEPT !.state = "stateEditingNote"])
        discard == updateKeybindings(
                          [m EXCEPT !.noteEditorMode = "notePreviewMode",
                                    !.noteContent = m.originalContent,
                                    !.noteEditor = m.originalContent,
                                    !.hasUnsavedChanges = FALSE,
                                    !.noteViewer = Render(m.originalContent),
                                    !.state = "stateEditingNote"])
    IN
    IF key \in {"left", "h"} THEN Ret([m EXCEPT !.confirmationChoice = 0], env)
    ELSE IF key \in {"right", "l"} THEN Ret([m EXCEPT !.confirmationChoice = 1], env)
    ELSE IF key \in {"y", "Y"} THEN Ret([m EXCEPT !.confirmationChoice = 0], env)
    ELSE IF key \in {"n", "N"} THEN Ret([m EXCEPT !.confirmationChoice = 1], env)
    ELSE IF key = "enter"
       THEN IF m.confirmationChoice = 0 THEN Ret(discard, env) ELSE Ret(back, env)
    ELSE IF key = "esc" THEN Ret(discard, env)
    ELSE Ret(m, env)

\* updateExitConfirmation where Yes does not reset the editor
updateExitConfirmation_YesKeepsEditor(m, msg, env) ==
    LET key == KeyOf(msg)
        back == updateKeybindings([m EXCEPT !.state = "stateEditingNote"])
    IN
    IF key \in {"left", "h"} THEN Ret([m EXCEPT !.confirmationChoice = 0], env)
    ELSE IF key \in {"right", "l"} THEN Ret([m EXCEPT !.confirmationChoice = 1], env)
    ELSE IF key \in {"y", "Y"} THEN Ret([m EXCEPT !.confirmationChoice = 0], env)
    ELSE IF key \in {"n", "N"} THEN Ret([m EXCEPT !.confirmationChoice = 1], env)
    ELSE IF key = "enter"
       THEN IF m.confirmationChoice = 0
               THEN Ret(updateKeybindings(
                          [m EXCEPT !.noteEditorMode = "notePreviewMode",
                                    !.noteContent = m.originalContent,
                                    !.hasUnsavedChanges = FALSE,
                                    !.noteViewer = Render(m.originalContent),
                                    !.state = "stateEditingNote"]), env)
               ELSE Ret(back, env)
    ELSE IF key = "esc" THEN Ret(back, env)
    ELSE Ret(m, env)

\* model.updateExitConfirmation
updateExitConfirmation(m, msg, env) ==
    LET key == KeyOf(msg)
        back == updateKeybindings([m EXCEPT !.state = "stateEditingNote"])
    IN
    IF key \in {"left", "h"} THEN Ret([m EXCEPT !.confirmationChoice = 0], env)
    ELSE IF key \in {"right", "l"} THEN Ret([m EXCEPT !.confirmationChoice = 1], env)
    ELSE IF key \in {"y", "Y"} THEN Ret([m EXCEPT !.confirmationChoice = 0], env)
    ELSE IF key \in {"n", "N"} THEN Ret([m EXCEPT !.confirmationChoice = 1], env)
    ELSE IF key = "enter"
       THEN IF m.confirmationChoice = 0
               THEN Ret(updateKeybindings(
                          [m EXCEPT !.noteEditorMode = "notePreviewMode",
                                    !.noteContent = m.originalContent,
                                    !.noteEditor = m.originalContent,
                                    !.hasUnsavedChanges = FALSE,
                                    !.noteViewer = Render(m.originalContent),
                                    !.state = "stateEditingNote"]), env)
               ELSE Ret(back, env)
    ELSE IF key = "esc" THEN Ret(back, env)
    ELSE Ret(m, env)


\* clock.Model.Update: a TickMsg sets the time shown and starts the next Tick
clockUpdate(m, msg, t) ==
    IF msg.type = "TickMsg"
       THEN [m |-> [m EXCEPT !.Time = t], tick |-> 1]
       ELSE [m |-> m, tick |-> 0]

\* calendar.Model.Update; the spinner takes no part: no command of the program
\* ever produces a spinner.TickMsg, and it ignores every other message
calendarUpdateMsg(m, msg, focused, t) ==
    IF msg.type = "EventsMsg"
       THEN [m |-> calendarEventsMsg(m, msg.MonthKey, msg.Events),
             fetch |-> {}, save |-> TRUE, tick |-> 0]
    ELSE IF msg.type = "EventsErrMsg"
       THEN [m |-> calendarEventsErrMsg(m, msg.MonthKey, msg.Err),
             fetch |-> {}, save |-> FALSE, tick |-> 0]
    ELSE LET ck == clockUpdate(m.clock, msg, t)
             r == calendarUpdate([m EXCEPT !.clock = ck.m], KeyOf(msg), focused, t)
         IN  [m |-> r.m, fetch |-> r.fetch, save |-> FALSE, tick |-> ck.tick]

\* calendar.Model.Init: the fetch for the current month
calendarInit(env) == {MonthKey(env.today)}

\* the pane a left-button press focuses
clickFocus(m, msg) ==
    LET leftColumnWidth == (m.width * 2) \div 5
    IN  IF msg.X < leftColumnWidth
           THEN IF msg.Y < m.height \div 2 THEN focusList ELSE focusCalendar
           ELSE focusNotes

\* the focus after Tab, moving against the panel order
cycleFocus_Backwards(focus) == (focus + 2) % 3

\* model.updateDashboard, case CycleFocus: m.focus = (m.focus + 1) % 3
cycleFocus(focus) == (focus + 1) % 3

\* model.viewDashboard: the panel drawn at column x, row y.  The logo takes
\* the first row; the left column is width / 2 wide and holds the task box
\* above the calendar box; a box is as high as the height given to its style
\* plus its two border rows; the notes box fills the right column
viewDashboardPane(x, y, width, height) ==
    LET logoHeight == 1
        gridHeight == height - 3
        leftColumnWidth == width \div 2
        todoBoxHeight == (gridHeight * 3) \div 7
        todoBoxRows == (todoBoxHeight - 4) + 2
    IN  IF x < leftColumnWidth
           THEN IF y < logoHeight + todoBoxRows THEN focusList ELSE focusCalendar
           ELSE focusNotes

\* the task panel takes text only while a task is added
todoTakesText_AddingOnly(todo) == todo.State = "ListStateAdding"

\* model.updateDashboard, its first test: the task panel is Adding or Editing
todoTakesText(todo) == todo.State \in {"ListStateAdding", "ListStateEditing"}

\* model.updateDashboard
updateDashboard(m, msg, env) ==
    LET key == KeyOf(msg)
    IN
    IF todoTakesText(m.todo)
       THEN LET td == todoUpdate(m.todo, key, m.focus = focusList)
            IN  [Ret([m EXCEPT !.todo = td.m], env) EXCEPT !.saved = td.saved]
    ELSE IF msg.type = "EditNoteMsg"
       THEN Ret(updateKeybindings(
                  [m EXCEPT !.state = "stateEditingNote",
                            !.editingNotePath = msg.Path,
                            !.noteContent = msg.Content,
                            !.originalContent = msg.Content,
                            !.hasUnsavedChanges = FALSE,
                            !.noteEditor = msg.Content,
                            !.noteEditorMode = "notePreviewMode",
                            !.noteViewer = Render(msg.Content)]), env)
    ELSE LET m0 == IF /\ msg.type = "MouseMsg"
                       /\ msg.Action = "MouseActionPress"
                       /\ msg.Button = "MouseButtonLeft"
                       THEN updateKeybindings([m EXCEPT !.focus = clickFocus(m, msg)])
                       ELSE m
             td == todoUpdate(m0.todo, key, m0.focus = focusList)
             nt == notesUpdate(m0.notes, env.fs, key, m0.focus = focusNotes)
             cal == calendarUpdateMsg(m0.calendar, msg, m0.focus = focusCalendar, env.now)
             m1 == [m0 EXCEPT !.todo = td.m, !.notes = nt.m, !.calendar = cal.m]
             all == [m |-> m1, fs |-> nt.fs, sf |-> env.sf, token |-> env.token,
                     saved |-> td.saved,
                     fetch |-> cal.fetch, edit |-> nt.edit, save |-> cal.save,
                     quit |-> FALSE, tick |-> cal.tick, wait |-> 0]
             none == [all EXCEPT !.fetch = {}, !.edit = {}, !.tick = 0]
         IN  IF msg.type # "KeyMsg" THEN all
             ELSE IF key = "q" THEN none
             ELSE IF Matches(key, m1.keys.ShowHelp, {"ctrl+k"})
                     THEN [none EXCEPT !.m.showHelp = ~m1.showHelp]
             ELSE IF Matches(key, m1.keys.Cancel, {"esc"})
                     THEN [none EXCEPT !.m.showHelp = FALSE]
             ELSE IF Matches(key, m1.keys.Quit, {"ctrl+q"})
                     THEN [none EXCEPT !.quit = TRUE]
             ELSE IF Matches(key, m1.keys.CycleFocus, {"tab"})
                     THEN IF m1.todo.State # "ListStateAdding"
                             THEN [none EXCEPT !.m = updateKeybindings(
                                       [m1 EXCEPT !.focus = cycleFocus(m1.focus)])]
                             ELSE none
             ELSE all

\* entering the dashboard from a setup state
enterDashboard(m, env) ==
    [Ret(updateKeybindings([m EXCEPT !.state = "stateDashboard"]), env)
        EXCEPT !.fetch = calendarInit(env), !.tick = 1]

\* model.updateSetupCalendar
updateSetupCalendar(m, msg, env) ==
    LET key == KeyOf(msg)
        typed == [m EXCEPT !.setupTextInput = TextUpdate(m.setupTextInput, key)]
    IN
    IF env.token THEN enterDashboard(m, env)
    ELSE IF Matches(key, m.keys.Quit, {"ctrl+q"})
       THEN [Ret(m, env) EXCEPT !.quit = TRUE]
    ELSE IF Matches(key, m.keys.OpenLink, {"ctrl+o"})
       THEN [Ret(typed, env) EXCEPT !.wait = IF env.manual THEN 0 ELSE 1]
    ELSE IF Matches(key, m.keys.Confirm, {"enter"})
            /\ env.manual /\ m.setupTextInput # <<>>
       THEN IF env.exchangeOk
               THEN [enterDashboard(m, [env EXCEPT !.token = TRUE])
                        EXCEPT !.token = TRUE]
               ELSE Ret([typed EXCEPT !.err = "unable to retrieve token"], env)
    ELSE Ret(typed, env)

\* model.updateSetupWeather
updateSetupWeather(m, msg, env) ==
    LET key == KeyOf(msg)
        typed == [m EXCEPT !.setupTextInput = TextUpdate(m.setupTextInput, key)]
    IN
    IF Matches(key, m.keys.Quit, {"ctrl+q"})
       THEN [Ret(m, env) EXCEPT !.quit = TRUE]
    ELSE IF Matches(key, m.keys.Confirm, {"enter"})
            /\ m.setupTextInput # <<>> /\ env.writeOk
       THEN LET m1 == [m EXCEPT !.settings.Location = m.setupTextInput]
                env1 == [env EXCEPT !.sf = SaveSettings(m1.settings)]
            IN  IF ~env.token
                   THEN Ret([m1 EXCEPT !.state = "stateSetupCalendar",
                                       !.setupTextInput = <<>>], env1)
                   ELSE enterDashboard(m1, env1)
    ELSE Ret(typed, env)

\* model.Update, after a tea.WindowSizeMsg was recorded
dispatch(m, msg, env) ==
    IF m.err # ""
       THEN [Ret(m, env) EXCEPT !.quit = TRUE]
    ELSE IF m.state = "stateEditingNote" THEN updateNoteEditor(m, msg, env)
    ELSE IF m.state = "stateExitConfirmation" THEN updateExitConfirmation(m, msg, env)
    ELSE IF m.state = "stateSetupWeather" THEN updateSetupWeather(m, msg, env)
    ELSE IF m.state = "stateSetupCalendar" THEN updateSetupCalendar(m, msg, env)
    ELSE updateDashboard(m, msg, env)

\* model.Update, case tea.WindowSizeMsg
resize(m, msg) ==
    IF msg.type = "WindowSizeMsg"
       THEN [m EXCEPT !.width = msg.Width, !.height = msg.Height]
       ELSE m

\* model.Update
Update(m, msg, env) == dispatch(resize(m, msg), msg, env)


\* ------------------------------------------------------------ the state
VARIABLES
    m,          \* main.go model, with the three panels as fields
    files,      \* the notes directory: file name -> content
    todoFile,   \* the persisted task list
    cacheFile,  \* the persisted calendar cache
    token,      \* IsAuthorized(): a token file exists and decodes
    manual,     \* IsUsingManualFlow()
    today,      \* the date time.Now() falls on
    now,        \* wall clock, in seconds
    pending,    \* month key -> fetch commands started and not yet returned
    editMsgs,   \* EditNoteMsg produced and not yet delivered
    savers,     \* the goroutines running SaveCalendarCache, in the order they
                \* were started
    quit,       \* tea.Quit was returned
    last,       \* the latest message that the note editor, the exit
                \* confirmation or the weather prompt handled with an effect,
                \* and which of them; kept by the calendar setup, forgotten
                \* by the dashboard
    settingsFile, \* the persisted settings
    auth,       \* the authorization flow: the callback server goroutine, the
                \* channels serverStarted, authComplete and authError, the
                \* goroutines blocked in WaitForAuth, and the redirect target
                \* of the authorization URL
    fetchLog,   \* every fetch initiation: time, month, who started it, and
                \* the date selected before and after
    clockTicks  \* clock.Tick commands started whose TickMsg is yet to arrive

vars == <<m, files, todoFile, cacheFile, token, manual, today, now, pending,
          editMsgs, savers, quit, last, settingsFile, auth, fetchLog,
                   clockTicks>>

AllKeysEnabled ==
    [Confirm |-> TRUE, OpenLink |-> TRUE, OpenCalendar |-> TRUE,
     CycleFocus |-> TRUE, ShowHelp |-> TRUE, SaveNote |-> TRUE,
     ToggleEditMode |-> TRUE, Cancel |-> TRUE, Quit |-> TRUE]

\* todo.New
todoNew(tasks) ==
    [State |-> "ListStateDefault", Items |-> tasks, Index |-> 0, TextInput |-> <<>>]

\* notes.New
notesNew(loaded) ==
    [State |-> "NoteStateList", Items |-> loaded.notes, Index |-> 0,
     TextInput |-> <<>>]

\* calendar.New
calendarNew(day, cache) ==
    [state |-> "StateIdle", selectedDate |-> day, events |-> <<>>,
     cachedEvents |-> cache, fetchingMonths |-> [k \in Months |-> FALSE],
     lastFetchTime |-> 0, err |-> "", loading |-> FALSE,
     clock |-> [Time |-> StartTime]]

\* initialModel
initialModel(tasks, loaded, settings, day, cache, authorized) ==
    updateKeybindings(
        [state |-> IF authorized THEN "stateDashboard" ELSE "stateSetupCalendar",
         focus |-> focusList,
         todo |-> todoNew(tasks),
         notes |-> notesNew(loaded),
         calendar |-> calendarNew(day, cache),
         noteEditor |-> <<>>,
         noteViewer |-> Render(<<>>),
         noteEditorMode |-> "notePreviewMode",
         noteContent |-> <<>>,
         editingNotePath |-> <<>>,
         setupTextInput |-> <<>>,
         keys |-> AllKeysEnabled,
         settings |-> settings,
         showHelp |-> FALSE,
         err |-> "",
         saveMessageTimer |-> 0,
         hasUnsavedChanges |-> FALSE,
         originalContent |-> <<>>,
         confirmationChoice |-> 0,
         width |-> 0,
         height |-> 0])

\* what the program may find on disk and on the clock when it starts
InitTasks == { saveTasks(<<[task(<<"e">>) EXCEPT !.Done = TRUE]>>) }
InitFiles == { [p \in {<<"n">>} |-> <<>>] }
InitDays == { FirstDay(NumMonths \div 2) }
InitCaches == { Missing, MarshalCache([k \in {0} |-> <<>>]) }
InitSettings == { Missing }

\* what the editor log keeps of a message: its type and its key
Tag(msg) ==
    [type |-> msg.type, key |-> IF msg.type = "KeyMsg" THEN msg.key ELSE ""]

InitLast == [msg |-> Tag([type |-> "none"]), handler |-> "none"]

LogEntry(t, k, by, from, to) ==
    [t |-> t, month |-> k, by |-> by, from |-> from, to |-> to]

\* the program and what it finds on disk when it starts, and the model after
\* the key presses Typed
InitFrom(Typed(_)) ==
    /\ token \in BOOLEAN
    /\ today \in InitDays
    /\ cacheFile \in InitCaches
    /\ \E tasks \in InitTasks, disk \in InitFiles, file \in InitSettings :
          LET loaded == loadNotes(disk, settingsFileLoaded(file))
          IN  /\ todoFile = tasksFileLoaded(tasks)
              /\ files = loaded.fs
              /\ settingsFile = loaded.sf
              /\ m = Typed(initialModel(loadTasks(tasks), loaded,
                                        LoadSettings(file), today,
                                        LoadCalendarCache(cacheFile), token))
    /\ now = StartTime
    /\ pending = [k \in Months |->
                    IF token /\ k = MonthKey(today) THEN 1 ELSE 0]
    /\ fetchLog = IF token THEN <<LogEntry(StartTime, MonthKey(today), "Init", today, today)>>
                           ELSE <<>>
    /\ editMsgs = {}
    /\ savers = <<>>
    /\ quit = FALSE
    /\ last = InitLast
    /\ clockTicks = IF token THEN 1 ELSE 0

\* the program when it starts, before any message
InitProgram == InitFrom(LAMBDA started : started)

\* the program once it shows its first view
Init ==
    /\ InitProgram
    /\ manual \in (IF token THEN {FALSE} ELSE BOOLEAN)
    /\ auth = AuthAfterStart(token, manual)

Env(writeOk, exchangeOk) ==
    [fs |-> files, sf |-> settingsFile, token |-> token, manual |-> manual, now |-> now,
     today |-> today, writeOk |-> writeOk, exchangeOk |-> exchangeOk]

Handler == IF m.err # "" THEN "fatal" ELSE m.state

\* a key or blink message that changed nothing and started nothing
Idle(msg, r) ==
    /\ msg.type \in {"KeyMsg", "BlinkMsg"}
    /\ r.m = m /\ r.fs = files /\ r.sf = settingsFile /\ r.token = token
    /\ ~r.saved /\ ~r.save /\ ~r.quit /\ r.fetch = {} /\ r.edit = {}
    /\ r.tick = 0 /\ r.wait = 0

\* go SaveCalendarCache(m.cachedEvents): a goroutine that has not yet read
\* the map
SaverStarted == [pc |-> "started", seen |-> {}, raced |-> FALSE, data |-> Missing]

\* m.cachedEvents[msg.MonthKey] = msg.Events while goroutines iterate over the
\* same map: each of them may see the map with or without the store
mapWritten(running, cache) ==
    [i \in 1 .. Len(running) |->
        IF running[i].pc = "reading"
           THEN [running[i] EXCEPT !.seen = @ \cup {cache}, !.raced = TRUE]
           ELSE running[i]]

\* the event loop hands msg to model.Update and runs the returned commands
Step(msg, r) ==
    /\ ~quit
    /\ Len(r.m.todo.Items) <= MaxItems
    /\ Len(r.m.notes.Items) <= MaxItems
    /\ auth.waiters + r.wait <= MaxWaiters
    /\ auth' = [auth EXCEPT !.waiters = @ + r.wait]
    /\ m' = r.m
    /\ files' = r.fs
    /\ settingsFile' = r.sf
    /\ token' = r.token
    /\ todoFile' = IF r.saved THEN saveTasks(r.m.todo.Items) ELSE todoFile
    /\ savers' = IF r.save
                    THEN Append(mapWritten(savers, r.m.calendar.cachedEvents),
                                SaverStarted)
                    ELSE savers
    /\ quit' = r.quit
    /\ last' = IF Handler \in {"stateEditingNote", "stateExitConfirmation",
                                "stateSetupWeather"}
                  THEN IF Idle(msg, r) THEN last
                       ELSE [msg |-> Tag(msg), handler |-> Handler]
                  ELSE IF Handler = "stateSetupCalendar" THEN last
                  ELSE InitLast
    /\ fetchLog' =
          IF r.fetch = {} THEN fetchLog
          ELSE Append(fetchLog,
                 LogEntry(now, CHOOSE k \in r.fetch : TRUE,
                          IF m.state = "stateDashboard" THEN "nav" ELSE "Init",
                          m.calendar.selectedDate,
                          r.m.calendar.selectedDate))
    /\ clockTicks' = clockTicks + r.tick - (IF msg.type = "TickMsg" THEN 1 ELSE 0)
    /\ UNCHANGED <<cacheFile, manual, today, now>>

Started(r) == [k \in Months |-> pending[k] + (IF k \in r.fetch THEN 1 ELSE 0)]

\* the modelled calendar ends at the first and the last date
InCalendar(key) ==
    (m.state = "stateDashboard" /\ m.focus = focusCalendar)
        => DatePickerUpdate(m.calendar.selectedDate, key) \in Dates

\* whether a file write and the token exchange succeed, drawn in the states
\* whose handler performs one: os.WriteFile of the note and SaveSettings,
\* ExchangeCodeForToken
WriteOutcomes ==
    IF m.state \in {"stateEditingNote", "stateSetupWeather"} THEN BOOLEAN ELSE {TRUE}
ExchangeOutcomes ==
    IF m.state = "stateSetupCalendar" THEN BOOLEAN ELSE {TRUE}

\* a key press reaches the event loop
KeyMsg(key) ==
    \E writeOk \in WriteOutcomes, exchangeOk \in ExchangeOutcomes :
       LET msg == [type |-> "KeyMsg", key |-> key]
           r == Update(m, msg, Env(writeOk, exchangeOk))
       IN  /\ InCalendar(key)
           /\ Step(msg, r)
           /\ pending' = Started(r)
           /\ editMsgs' = editMsgs \cup r.edit

\* the command returned by the notes panel delivers its EditNoteMsg
EditNoteMsg(e) ==
    LET msg == [type |-> "EditNoteMsg", Path |-> e.Path, Content |-> e.Content]
        r == Update(m, msg, Env(TRUE, TRUE))
    IN  /\ e \in editMsgs
        /\ Step(msg, r)
        /\ pending' = Started(r)
        /\ editMsgs' = (editMsgs \ {e}) \cup r.edit

\* FetchEventsForMonth's command returns and its message reaches the loop
FetchReturns(k, msg) ==
    LET r == Update(m, msg, Env(TRUE, TRUE))
    IN  /\ pending[k] > 0
        /\ Step(msg, r)
        /\ pending' = [Started(r) EXCEPT ![k] = @ - 1]
        /\ editMsgs' = editMsgs \cup r.edit

EventsMsg(k) ==
    \E evs \in Responses(k) :
       FetchReturns(k, [type |-> "EventsMsg", MonthKey |-> k, Events |-> evs])

\* the fetch failed: the token file could not be read when the command ran
\* (ErrAuthRequired), or the calendar service returned an error
FetchErrors == {"ErrAuthRequired", "unable to retrieve events"}

EventsErrMsg(k) ==
    \E e \in FetchErrors :
       FetchReturns(k, [type |-> "EventsErrMsg", MonthKey |-> k, Err |-> e])

\* a cursor blink message
BlinkMsg ==
    LET msg == [type |-> "BlinkMsg"]
        r == Update(m, msg, Env(TRUE, TRUE))
    IN  /\ Step(msg, r)
        /\ pending' = Started(r)
        /\ editMsgs' = editMsgs \cup r.edit

\* the terminal reports its size
WindowSizeMsg(w, h) ==
    LET msg == [type |-> "WindowSizeMsg", Width |-> w, Height |-> h]
        r == Update(m, msg, Env(TRUE, TRUE))
    IN  /\ Step(msg, r)
        /\ pending' = Started(r)
        /\ editMsgs' = editMsgs \cup r.edit

\* a mouse button is pressed or released at column x, row y
MouseMsg(x, y, action) ==
    LET msg == [type |-> "MouseMsg", X |-> x, Y |-> y, Action |-> action,
                Button |-> "MouseButtonLeft"]
        r == Update(m, msg, Env(TRUE, TRUE))
    IN  /\ Step(msg, r)
        /\ pending' = Started(r)
        /\ editMsgs' = editMsgs \cup r.edit

\* a clock.Tick command fires and its TickMsg reaches the loop
ClockTickMsg ==
    LET msg == [type |-> "TickMsg"]
        r == Update(m, msg, Env(TRUE, TRUE))
    IN  /\ clockTicks > 0
        /\ Step(msg, r)
        /\ pending' = Started(r)
        /\ editMsgs' = editMsgs \cup r.edit

\* a second passes; the clock is read only by time.Since(lastFetchTime) >
\* fetchCoolDown, so it is stopped once that holds
Tick ==
    /\ now < StartTime + MaxElapsed
    /\ now - m.calendar.lastFetchTime <= fetchCoolDown
    /\ now' = now + 1
    /\ UNCHANGED <<m, files, todoFile, cacheFile, token, manual, today, pending,
                   editMsgs, savers, quit, last, settingsFile, auth, fetchLog,
                   clockTicks>>

\* handleOAuthCallback: the browser reaches the callback server, the token is
\* exchanged and saved
handleOAuthCallback ==
    /\ ~quit /\ ~token /\ ~manual
    /\ auth.decided /\ auth.server = "serving"
    /\ token' = TRUE
    /\ auth' = [chanSend(auth, "authComplete") EXCEPT !.signalled = TRUE]
    /\ UNCHANGED <<m, files, todoFile, cacheFile, manual, today, now, pending,
                   editMsgs, savers, quit, last, settingsFile, fetchLog,
                   clockTicks>>

\* handleOAuthCallback on a request without a code, or whose exchange failed:
\* the error is sent on authError
handleOAuthCallbackError ==
    /\ ~quit /\ ~manual
    /\ auth.decided /\ auth.server = "serving"
    /\ auth.authError = 0
    /\ auth' = [chanSend(auth, "authError") EXCEPT !.signalled = TRUE]
    /\ UNCHANGED <<m, files, todoFile, cacheFile, token, manual, today, now,
                   pending, editMsgs, savers, quit, last, settingsFile, fetchLog,
                   clockTicks>>

\* what the goroutines of the authorization flow leave alone
AuthOnly ==
    UNCHANGED <<m, files, todoFile, cacheFile, token, today, now, pending,
                editMsgs, savers, quit, last, settingsFile, fetchLog, clockTicks>>

\* tryStartCallbackServer up to its select: without a free port it returns,
\* otherwise it records the port, signals serverStarted and serves
tryStartCallbackServer ==
    /\ ~quit
    /\ auth.server = "starting"
    /\ LET port == firstFreePort(auth.busy)
       IN  auth' = IF port = 0
                      THEN [auth EXCEPT !.server = "none"]
                      ELSE [chanSend(auth, "serverStarted")
                              EXCEPT !.server = "serving", !.serverPort = port]
    /\ UNCHANGED manual
    /\ AuthOnly

\* StartAuthFlow after the go statement: the select takes serverStarted, or
\* the two seconds pass without it; then getConfig sets the redirect target
StartAuthFlow ==
    /\ ~quit
    /\ auth.server # "idle" /\ ~auth.decided
    /\ manual' = (auth.serverStarted = 0)
    /\ auth' = [chanRecv(auth, "serverStarted")
                  EXCEPT !.decided = TRUE,
                         !.redirect = getConfig(manual', auth.serverPort)]
    /\ AuthOnly

\* the select of tryStartCallbackServer receives from authComplete or from
\* authError and shuts the server down
ServerReceive ==
    /\ ~quit
    /\ auth.server = "serving"
    /\ \E ch \in Ready(auth) :
          auth' = [chanRecv(auth, ch) EXCEPT !.server = "closed"]
    /\ UNCHANGED manual
    /\ AuthOnly

\* the five minutes of tryStartCallbackServer pass, long after the two
\* seconds of StartAuthFlow: the server is shut down and the timeout error is
\* to be sent on authError
ServerTimeout ==
    /\ ~quit
    /\ auth.decided /\ auth.server = "serving"
    /\ auth' = [auth EXCEPT !.server = "closing"]
    /\ UNCHANGED manual
    /\ AuthOnly

ServerTimeoutSend ==
    /\ ~quit
    /\ auth.server = "closing"
    /\ auth.authError = 0
    /\ auth' = [chanSend(auth, "authError") EXCEPT !.server = "closed"]
    /\ UNCHANGED manual
    /\ AuthOnly

\* WaitForAuth in a goroutine started by Ctrl+O: its select receives from
\* authComplete or from authError
WaitForAuth ==
    /\ ~quit
    /\ auth.waiters > 0
    /\ \E ch \in Ready(auth) :
          auth' = [chanRecv(auth, ch) EXCEPT !.waiters = @ - 1]
    /\ UNCHANGED manual
    /\ AuthOnly

\* the five minutes of WaitForAuth pass
WaitForAuthTimeout ==
    /\ ~quit
    /\ auth.waiters > 0
    /\ auth' = [auth EXCEPT !.waiters = @ - 1]
    /\ UNCHANGED manual
    /\ AuthOnly

\* what a goroutine of SaveCalendarCache leaves alone
SaverOnly ==
    UNCHANGED <<m, files, todoFile, token, manual, today, now, pending,
                editMsgs, last, settingsFile, auth, fetchLog, clockTicks>>

\* SaveCalendarCache in its goroutine: json.MarshalIndent starts to iterate
\* over the map it was given, which is the map of the panel
SaveCalendarCacheMarshal(i) ==
    /\ ~quit
    /\ savers[i].pc = "started"
    /\ savers' = [savers EXCEPT ![i] = [@ EXCEPT !.pc = "reading",
                                                !.seen = {m.calendar.cachedEvents}]]
    /\ UNCHANGED <<cacheFile, quit>>
    /\ SaverOnly

\* json.MarshalIndent returns: without a store into the map meanwhile the
\* data is the map; with one, the read was unsynchronized and the data is the
\* map as it was before or after any of those stores
SaveCalendarCacheMarshalled(i) ==
    /\ ~quit
    /\ savers[i].pc = "reading"
    /\ \E cache \in savers[i].seen :
          savers' = [savers EXCEPT ![i] = [@ EXCEPT !.pc = "marshalled",
                                                   !.seen = {},
                                                   !.data = MarshalCache(cache)]]
    /\ UNCHANGED <<cacheFile, quit>>
    /\ SaverOnly

\* the iteration meets a store into the map: the Go runtime may detect it
\* ("concurrent map iteration and map write") and end the process
SaveCalendarCacheFatal(i) ==
    /\ ~quit
    /\ savers[i].pc = "reading" /\ savers[i].raced
    /\ savers' = <<[savers[i] EXCEPT !.pc = "fatal", !.seen = {}]>>
    /\ quit' = TRUE
    /\ UNCHANGED cacheFile
    /\ SaverOnly

\* os.WriteFile of the marshalled data; the goroutine ends
SaveCalendarCacheWrite(i) ==
    /\ ~quit
    /\ savers[i].pc = "marshalled"
    /\ cacheFile' = savers[i].data
    /\ savers' = RemoveAt(savers, i)
    /\ UNCHANGED quit
    /\ SaverOnly

\* a step of one of the goroutines running SaveCalendarCache
SaveCalendarCache ==
    \E i \in 1 .. Len(savers) :
       \/ SaveCalendarCacheMarshal(i)
       \/ SaveCalendarCacheMarshalled(i)
       \/ SaveCalendarCacheFatal(i)
       \/ SaveCalendarCacheWrite(i)

\* main: the program is started again on what the last run left on disk
Restart ==
    /\ quit
    /\ quit' = FALSE
    /\ LET loaded == loadNotes(files, settingsFileLoaded(settingsFile))
       IN  /\ todoFile' = tasksFileLoaded(todoFile)
           /\ files' = loaded.fs
           /\ settingsFile' = loaded.sf
           /\ m' = [initialModel(loadTasks(todoFile), loaded,
                                 LoadSettings(settingsFile), today,
                                 LoadCalendarCache(cacheFile), token)
                       EXCEPT !.calendar.clock.Time = now]
    /\ pending' = [k \in Months |->
                     IF token /\ k = MonthKey(today) THEN 1 ELSE 0]
    /\ fetchLog' = IF token
                      THEN <<LogEntry(now, MonthKey(today), "Init", today, today)>>
                      ELSE <<>>
    /\ editMsgs' = {}
    /\ savers' = <<>>
    /\ last' = InitLast
    /\ clockTicks' = IF token THEN 1 ELSE 0
    /\ manual' \in (IF token THEN {FALSE} ELSE BOOLEAN)
    /\ auth' = AuthAfterStart(token, manual')
    /\ UNCHANGED <<cacheFile, token, today, now>>

\* the keys pressed while the calendar is navigated
Keys == {"tab", "left", "right"}

Next ==
    \/ \E key \in Keys : KeyMsg(key)
    \/ \E k \in Months : EventsMsg(k)
    \/ \E k \in Months : EventsErrMsg(k)
    \/ BlinkMsg
    \/ Tick

\* started with a valid token: the dashboard is entered at once
InitAuthorized == Init /\ token

Spec == InitAuthorized /\ [][Next]_vars

\* the keys pressed while a note is opened and edited; the fetch started by
\* Init returns meanwhile
EditorKeys == {"tab", "enter", "esc", "i", "ctrl+s", "y"}

NextEditor ==
    \/ \E key \in EditorKeys : KeyMsg(key)
    \/ \E e \in editMsgs : EditNoteMsg(e)
    \/ \E k \in Months : EventsMsg(k)
    \/ \E k \in Months : EventsErrMsg(k)
    \/ BlinkMsg

SpecEditor == InitAuthorized /\ [][NextEditor]_vars

\* started without a token: the keys pressed during the calendar setup and
\* in the dashboard entered from it
SetupKeys == {"enter", "ctrl+o", "ctrl+q", "e", "tab"}

NextSetup ==
    \/ \E key \in SetupKeys : KeyMsg(key)
    \/ handleOAuthCallback
    \/ \E k \in Months : EventsMsg(k)
    \/ \E k \in Months : EventsErrMsg(k)
    \/ BlinkMsg

InitUnauthorized == Init /\ ~token

SpecSetup == InitUnauthorized /\ [][NextSetup]_vars

\* started without a token, from the go statement of StartAuthFlow on: which
\* ports are taken is drawn, and the first view is shown once the flow is
\* chosen
InitAuthFlow ==
    /\ InitProgram
    /\ ~token
    /\ manual = FALSE
    /\ \E busy \in SUBSET Ports :
          auth = [AuthIdle EXCEPT !.server = "starting", !.busy = busy]

AuthKeys == {"ctrl+o", "enter"}

NextAuth ==
    \/ tryStartCallbackServer
    \/ StartAuthFlow
    \/ \E key \in AuthKeys : auth.decided /\ KeyMsg(key)
    \/ handleOAuthCallback
    \/ handleOAuthCallbackError
    \/ ServerReceive
    \/ ServerTimeout
    \/ ServerTimeoutSend
    \/ WaitForAuth
    \/ WaitForAuthTimeout

SpecAuth == InitAuthFlow /\ [][NextAuth]_vars

\* the characters of the titles that are named: a digit, a space, a
\* punctuation mark, a letter and a character outside ASCII
TitleChars == {"1", " ", "!", "o", "é"}
Titles == UNION {[1 .. n -> TitleChars] : n \in 0 .. MaxTitle}

\* the dashboard after a click on the notes pane, the new-note key and the
\* typing of a title
namedNote(started, title) ==
    updateKeybindings(
        [started EXCEPT !.focus = focusNotes,
                        !.notes.State = "NoteStateCreate",
                        !.notes.TextInput = title])

InitTitles ==
    /\ \E title \in Titles : InitFrom(LAMBDA started : namedNote(started, title))
    /\ token
    /\ manual = FALSE
    /\ auth = AuthAfterStart(token, manual)

\* a note is named, the program is left and started again
NextTitles ==
    \/ m.notes.State = "NoteStateCreate" /\ KeyMsg("enter")
    \/ KeyMsg("ctrl+q")
    \/ Restart

SpecTitles == InitTitles /\ [][NextTitles]_vars

\* the settings records, task lists and caches that are saved and loaded; no
\* settings record is the default one
StoredSettings == {Settings(l, c) : l \in {<<>>, <<"o">>}, c \in BOOLEAN}
StoredTasks ==
    UNION {[1 .. n -> {[task(<<"e">>) EXCEPT !.Done = d] : d \in BOOLEAN}] :
             n \in 0 .. MaxItems}
StoredCaches ==
    {<<>>} \cup UNION {{[k \in {j} |-> evs] : evs \in Responses(j)} : j \in Months}

\* the model holding a settings record, a task list and a cache
holding(started, settings, tasks, cache) ==
    [started EXCEPT !.settings = settings,
                    !.todo.Items = tasks,
                    !.calendar.cachedEvents = cache]

InitStore ==
    /\ \E settings \in StoredSettings, tasks \in StoredTasks,
          cache \in StoredCaches :
          InitFrom(LAMBDA started : holding(started, settings, tasks, cache))
    /\ token
    /\ manual = FALSE
    /\ auth = AuthAfterStart(token, manual)

\* tasks are toggled, a month arrives and the cache is saved, the program is
\* left and started again
StoreKeys == {" ", "ctrl+q"}

NextStore ==
    \/ \E key \in StoreKeys : KeyMsg(key)
    \/ \E k \in Months : EventsMsg(k)
    \/ SaveCalendarCache
    \/ Restart

SpecStore == InitStore /\ [][NextStore]_vars

\* the keys pressed while fetched months are written to the cache file in the
\* background: the calendar is focused and left for the previous month
CacheKeys == {"tab", "left"}

NextCache ==
    \/ \E key \in CacheKeys : KeyMsg(key)
    \/ \E k \in Months : EventsMsg(k)
    \/ \E i \in 1 .. Len(savers) : SaveCalendarCacheMarshal(i)
    \/ \E i \in 1 .. Len(savers) : SaveCalendarCacheMarshalled(i)
    \/ \E i \in 1 .. Len(savers) : SaveCalendarCacheFatal(i)
    \/ \E i \in 1 .. Len(savers) : SaveCalendarCacheWrite(i)

SpecCache == InitAuthorized /\ [][NextCache]_vars

\* the keys pressed while the task panel has the focus and tasks are added,
\* edited and deleted
TaskKeys == {"o", "i", "backspace", "enter", "ctrl+s", "esc", "ctrl+d", "down"}

NextTasks ==
    \/ \E key \in TaskKeys : KeyMsg(key)
    \/ BlinkMsg

SpecTasks == InitAuthorized /\ [][NextTasks]_vars

\* the keys pressed while tasks are added, marked done and deleted
ToggleKeys == {"o", " ", "enter", "esc", "ctrl+d", "down"}

NextToggle ==
    \/ \E key \in ToggleKeys : KeyMsg(key)
    \/ BlinkMsg

SpecToggle == InitAuthorized /\ [][NextToggle]_vars

\* the notes pane is clicked, then notes are named, created and deleted;
\* enter is pressed to confirm a title only, no note is opened
NoteKeys == {"o", " ", "esc", "ctrl+d"}

NextNotes ==
    \/ \E key \in NoteKeys : m.focus = focusNotes /\ KeyMsg(key)
    \/ m.focus = focusNotes /\ m.notes.State = "NoteStateCreate" /\ KeyMsg("enter")
    \/ MouseMsg(5, 1, "MouseActionPress")
    \/ BlinkMsg

SpecNotes == InitAuthorized /\ [][NextNotes]_vars

\* notes are created and deleted, the program is left and started again
InstallKeys == {"o", " ", "ctrl+d", "ctrl+q"}

NextInstall ==
    \/ \E key \in InstallKeys : m.focus = focusNotes /\ KeyMsg(key)
    \/ m.focus = focusNotes /\ m.notes.State = "NoteStateCreate" /\ KeyMsg("enter")
    \/ MouseMsg(5, 1, "MouseActionPress")
    \/ Restart

SpecInstall == InitAuthorized /\ [][NextInstall]_vars

\* the keys pressed while the focus is moved by Tab and by the mouse and the
\* task and notes panels are taken in and out of their text entry; the
\* terminal is 10 columns by 24 rows
PanelKeys == {"o", "i", "esc", "tab"}
WindowSizes == { <<10, 24>> }
ClickColumns == {0, 4, 5}
ClickRows == {1, 11, 20}
MouseActions == {"MouseActionPress", "MouseActionRelease", "MouseActionMotion"}

NextPanels ==
    \/ \E key \in PanelKeys : KeyMsg(key)
    \/ \E size \in WindowSizes : WindowSizeMsg(size[1], size[2])
    \/ \E x \in ClickColumns, y \in ClickRows, action \in MouseActions :
          MouseMsg(x, y, action)
    \/ ClockTickMsg
    \/ BlinkMsg

SpecPanels == InitAuthorized /\ [][NextPanels]_vars

\* ------------------------------------------------------------- claims
Selected == m.calendar.selectedDate
Cached(k) == k \in DOMAIN m.calendar.cachedEvents
InFlight(k) == m.calendar.fetchingMonths[k]
CooldownElapsed == now - m.calendar.lastFetchTime > fetchCoolDown

\* the step changed the selected date to a date of month k
NavigatedTo(k) ==
    /\ m'.calendar.selectedDate # m.calendar.selectedDate
    /\ MonthKey(m'.calendar.selectedDate) = k

\* C1: at every point at most one fetch is outstanding for any month key, and
\* a navigation to a date of an uncached month that is marked in-flight starts
\* no fetch
C1_OneFetchPerMonth ==
    /\ [](\A k \in Months : pending[k] <= 1)
    /\ [][\A k \in Months :
            (NavigatedTo(k) /\ ~Cached(k) /\ InFlight(k))
               => (pending' = pending /\ fetchLog' = fetchLog)]_vars

\* C1: the fetch of an uncached month is outstanding, the cooldown has elapsed
\* since it was started, and the user has since navigated to another date of
\* that month
C1_Witness ==
    \E k \in Months :
       /\ ~Cached(k) /\ InFlight(k) /\ pending[k] = 1
       /\ MonthKey(Selected) = k
       /\ CooldownElapsed
       /\ fetchLog # <<>>
       /\ fetchLog[Len(fetchLog)].month = k
       /\ fetchLog[Len(fetchLog)].by = "nav"
       /\ fetchLog[Len(fetchLog)].to # Selected

\* C2: when the selected date changes to a date of a cached month, no fetch
\* is started, the cache, the in-flight set and the last initiation time are
\* unchanged, and the daily events are those of the cached month on that date
C2_CachedMonthFrame ==
    [][\A k \in Months :
          (NavigatedTo(k) /\ Cached(k))
             => /\ pending' = pending
                /\ fetchLog' = fetchLog
                /\ m'.calendar.cachedEvents = m.calendar.cachedEvents
                /\ m'.calendar.fetchingMonths = m.calendar.fetchingMonths
                /\ m'.calendar.lastFetchTime = m.calendar.lastFetchTime
                /\ m'.calendar.events =
                      SelectSeq(m.calendar.cachedEvents[k],
                                LAMBDA e : EventOnDay(e, m'.calendar.selectedDate))]_vars

\* C2: the user stands on a date, not today, of a month that was loaded from
\* the cache file with zero events and was never fetched, while the cooldown
\* of an earlier fetch is running
C2_Witness ==
    /\ Selected # today
    /\ MonthKey(Selected) \in DOMAIN LoadCalendarCache(cacheFile)
    /\ Cached(MonthKey(Selected))
    /\ m.calendar.cachedEvents[MonthKey(Selected)] = <<>>
    /\ \A i \in 1 .. Len(fetchLog) : fetchLog[i].month # MonthKey(Selected)
    /\ \E i \in 1 .. Len(fetchLog) : fetchLog[i].by = "nav"
    /\ ~CooldownElapsed

\* the fetches that navigation started
NavFetches == { i \in 1 .. Len(fetchLog) : fetchLog[i].by = "nav" }

\* C3: two fetches started by navigation are more than the cooldown apart,
\* and once the cooldown has elapsed a navigation to a date of a month that is
\* uncached and not in flight starts its fetch
C3_CooldownDefers ==
    /\ [](\A i, j \in NavFetches :
             i < j => fetchLog[j].t - fetchLog[i].t > fetchCoolDown)
    /\ [][\A k \in Months :
            (NavigatedTo(k) /\ ~Cached(k) /\ ~InFlight(k) /\ CooldownElapsed)
               => /\ pending' = [pending EXCEPT ![k] = @ + 1]
                  /\ m'.calendar.fetchingMonths[k]
                  /\ m'.calendar.lastFetchTime = now]_vars

\* C3: navigation fetched one month, then reached a second, never fetched
\* month without a fetch, and after the cooldown a navigation inside that
\* month fetched it
C3_Witness ==
    \E i, j \in NavFetches :
       /\ i < j
       /\ fetchLog[i].month # fetchLog[j].month
       /\ MonthKey(fetchLog[j].from) = fetchLog[j].month
       /\ \A n \in 1 .. Len(fetchLog) :
             n # j => fetchLog[n].month # fetchLog[j].month

EventsMsgOf(k, evs) == [type |-> "EventsMsg", MonthKey |-> k, Events |-> evs]
EventsErrMsgOf(k, e) == [type |-> "EventsErrMsg", MonthKey |-> k, Err |-> e]

\* C4: every fetch success message that reaches the event loop is applied,
\* whatever the top-level state, the focus and the state of the task panel:
\* its events are stored under its month key and the in-flight mark of that
\* month is cleared
C4_SuccessAlwaysApplied ==
    [][\A k \in Months : \A evs \in Responses(k) :
          FetchReturns(k, EventsMsgOf(k, evs))
             => /\ k \in DOMAIN m'.calendar.cachedEvents
                /\ m'.calendar.cachedEvents[k] = evs
                /\ ~m'.calendar.fetchingMonths[k]]_vars

\* C5: the cache starts with the keys of the cache file; afterwards no key is
\* removed, a key is added only by the success message of a fetch of that
\* month and with the events of that message as its value, be they none, and
\* a failure message adds no key
C5_CacheKeys ==
    /\ DOMAIN m.calendar.cachedEvents = DOMAIN LoadCalendarCache(cacheFile)
    /\ [][/\ DOMAIN m.calendar.cachedEvents \subseteq DOMAIN m'.calendar.cachedEvents
          /\ \A k \in (DOMAIN m'.calendar.cachedEvents) \ (DOMAIN m.calendar.cachedEvents) :
                \E evs \in Responses(k) :
                   /\ FetchReturns(k, EventsMsgOf(k, evs))
                   /\ m'.calendar.cachedEvents[k] = evs
          /\ \A k \in Months : \A e \in FetchErrors :
                FetchReturns(k, EventsErrMsgOf(k, e))
                   => DOMAIN m'.calendar.cachedEvents = DOMAIN m.calendar.cachedEvents]_vars

\* C5: a month that was not in the cache file is cached with no events, and
\* the failed fetch of another month has left that month uncached
C5_Witness ==
    \E k, j \in Months :
       /\ k \notin DOMAIN LoadCalendarCache(cacheFile)
       /\ Cached(k) /\ m.calendar.cachedEvents[k] = <<>>
       /\ ~Cached(j) /\ ~InFlight(j) /\ pending[j] = 0
       /\ \E i \in 1 .. Len(fetchLog) : fetchLog[i].month = j

\* C6: when a fetch fails with the authorization-required error, the
\* in-flight mark of its month is cleared and the top-level state becomes
\* SetupCalendar
C6_AuthErrorEntersSetup ==
    [][\A k \in Months :
          FetchReturns(k, EventsErrMsgOf(k, "ErrAuthRequired"))
             => /\ ~m'.calendar.fetchingMonths[k]
                /\ m'.state = "stateSetupCalendar"]_vars

\* C7: once a fetch has failed with another error, the error stays recorded,
\* the selected date no longer changes and no fetch is started
C7_ErrorHaltsCalendar ==
    [][m.calendar.err # ""
          => /\ m'.calendar.err = m.calendar.err
             /\ m'.calendar.selectedDate = m.calendar.selectedDate
             /\ \A k \in Months : pending'[k] <= pending[k]
             /\ fetchLog' = fetchLog]_vars

\* the step was a key handled, with an effect, by the given handler
Handled(key, handler) ==
    last' = [msg |-> Tag([type |-> "KeyMsg", key |-> key]), handler |-> handler]

InEditor == m.state \in {"stateEditingNote", "stateExitConfirmation"}
Unsaved == m.noteEditor # m.originalContent

\* the step typed into the editor in source mode
Typed ==
    /\ m.state = "stateEditingNote"
    /\ m.noteEditorMode = "noteSourceMode"
    /\ m'.state = "stateEditingNote"
    /\ \E key \in CharKeys \cup {"enter", "backspace"} :
          /\ Handled(key, "stateEditingNote")
          /\ m'.noteEditor = TextAreaUpdate(m.noteEditor, key)

\* the step confirmed the exit dialog with Yes selected
ConfirmedYes ==
    /\ m.state = "stateExitConfirmation"
    /\ m.confirmationChoice = 0
    /\ Handled("enter", "stateExitConfirmation")

\* the step saved the note in source mode
SavedNote ==
    /\ m.state = "stateEditingNote"
    /\ m.noteEditorMode = "noteSourceMode"
    /\ Handled("ctrl+s", "stateEditingNote")

C10_ExitConfirmation ==
    /\ [](m.state = "stateExitConfirmation"
             => (m.noteEditorMode = "noteSourceMode" /\ Unsaved))
    /\ [][m.state = "stateExitConfirmation"
            => /\ m'.state \in {"stateExitConfirmation", "stateEditingNote"}
               /\ ~quit'
               /\ KeyMsg("enter") =>
                     IF m.confirmationChoice = 0
                        THEN /\ m'.state = "stateEditingNote"
                             /\ m'.noteEditorMode = "notePreviewMode"
                             /\ m'.noteEditor = m.originalContent
                             /\ m'.noteContent = m.originalContent
                             /\ m'.noteViewer = Render(m.originalContent)
                             /\ ~m'.hasUnsavedChanges
                             /\ m'.originalContent = m.originalContent
                             /\ files' = files
                        ELSE /\ m'.state = "stateEditingNote"
                             /\ m'.noteEditorMode = "noteSourceMode"
                             /\ m'.noteEditor = m.noteEditor
                             /\ files' = files
               /\ KeyMsg("esc") =>
                     /\ m'.state = "stateEditingNote"
                     /\ m'.noteEditorMode = "noteSourceMode"
                     /\ m'.noteEditor = m.noteEditor
                     /\ files' = files]_vars

\* C10: Enter with Yes selected has discarded typed text
C10_Witness ==
    /\ m.state = "stateEditingNote"
    /\ m.noteEditorMode = "notePreviewMode"
    /\ last = [msg |-> Tag([type |-> "KeyMsg", key |-> "enter"]),
               handler |-> "stateExitConfirmation"]
    /\ m.noteEditor = m.originalContent
    /\ ~m.hasUnsavedChanges

\* what model.Update returns for a key pressed now, whether or not the note
\* file can be written and the authorization code is accepted
KeyResults(key) ==
    { Update(m, [type |-> "KeyMsg", key |-> key], Env(writeOk, exchangeOk)) :
         writeOk \in BOOLEAN, exchangeOk \in BOOLEAN }

\* C11: in SetupWeather, SetupCalendar and ExitConfirmation, Ctrl+Q ends the
\* program
C11_QuitOutsideDashboardAndEditor ==
    (/\ ~quit
     /\ m.err = ""
     /\ m.state \in {"stateSetupWeather", "stateSetupCalendar",
                     "stateExitConfirmation"})
       => \A r \in KeyResults("ctrl+q") : r.quit

\* C12: in Dashboard, whatever the focus and the state of the task and notes
\* panels, and in the note editor, in preview and in source mode, Ctrl+Q ends
\* the program
C12_QuitIsGlobal ==
    (/\ ~quit
     /\ m.err = ""
     /\ m.state \in {"stateDashboard", "stateEditingNote"})
       => \A r \in KeyResults("ctrl+q") : r.quit

\* C13: started without a valid token, the program shows the weather prompt
\* first: SetupCalendar is entered only by confirming the weather prompt
C13_WeatherPromptFirst ==
    m.state = "stateSetupCalendar"
       => last = [msg |-> Tag([type |-> "KeyMsg", key |-> "enter"]),
                  handler |-> "stateSetupWeather"]

\* the panel after a panel in the order Tasks, Notes, Calendar, Tasks
PanelAfter(focus) ==
    CASE focus = focusList -> focusNotes
      [] focus = focusNotes -> focusCalendar
      [] focus = focusCalendar -> focusList

\* C14: the focus is always Tasks, Notes or Calendar, and in Dashboard with
\* the task panel in Default a Tab moves it to the next panel in the order
\* Tasks, Notes, Calendar, Tasks, so that three Tabs restore it
C14_TabCyclesFocus ==
    /\ [](m.focus \in {focusList, focusNotes, focusCalendar})
    /\ [](\A f \in {focusList, focusNotes, focusCalendar} :
             PanelAfter(PanelAfter(PanelAfter(f))) = f)
    /\ [][(/\ m.state = "stateDashboard"
           /\ m.err = ""
           /\ m.todo.State = "ListStateDefault"
           /\ KeyMsg("tab"))
             => /\ m'.focus = PanelAfter(m.focus)
                /\ m'.state = "stateDashboard"]_vars

\* C14: the calendar was focused and navigated, and a Tab has moved the focus
\* from Calendar on to Tasks
C14_Witness ==
    /\ m.state = "stateDashboard"
    /\ m.todo.State = "ListStateDefault"
    /\ m.focus = focusList
    /\ m.calendar.selectedDate # today


\* ---- the dashboard panels
InDashboard == m.state = "stateDashboard" /\ m.err = ""
Entering == m.todo.State \in {"ListStateAdding", "ListStateEditing"}
EndsEntry == {"ctrl+s", "enter", "esc"}

\* C15: while the task panel is Adding or Editing the focus is on the task
\* panel and no message moves it, neither Tab nor a mouse press, and every
\* key other than confirm and cancel goes to the task text input and leaves
\* the panel in its state
C15_EntryKeepsFocus ==
    /\ []((InDashboard /\ Entering) => m.focus = focusList)
    /\ [][(InDashboard /\ Entering) => m'.focus = m.focus]_vars
    /\ [][\A key \in PanelKeys \ EndsEntry :
            (InDashboard /\ Entering /\ KeyMsg(key))
               => /\ m'.todo.TextInput = TextUpdate(m.todo.TextInput, key)
                  /\ m'.todo.State = m.todo.State
                  /\ m'.todo.Items = m.todo.Items]_vars

\* a task is being added in a sized terminal and a key has been typed
C15_Witness ==
    /\ InDashboard /\ m.todo.State = "ListStateAdding"
    /\ m.todo.TextInput # <<>> /\ m.width > 0


\* every key the panels and the dashboard bind, and the characters typed
AllKeys ==
    CharKeys \cup {"tab", "enter", "esc", "backspace", "up", "down", "left",
                   "right", "ctrl+s", "ctrl+d", "ctrl+k", "ctrl+o", "ctrl+q"}

\* C16: in Dashboard, whatever key is pressed, a panel that does not have the
\* focus keeps its state, its list, its selection and its text, and nothing
\* it persists is written: the task file for the task panel, the note files
\* for the notes panel, the month cache and the fetches for the calendar
C16_UnfocusedPanelsUnchanged ==
    InDashboard =>
       \A key \in AllKeys : InCalendar(key) =>
          \A r \in KeyResults(key) :
             /\ m.focus # focusList => (r.m.todo = m.todo /\ ~r.saved)
             /\ m.focus # focusNotes =>
                   (r.m.notes = m.notes /\ r.fs = files /\ r.edit = {})
             /\ m.focus # focusCalendar =>
                   (r.m.calendar = m.calendar /\ r.fetch = {} /\ ~r.save)

\* the notes panel, focused, took keys while the task panel kept its list
C16_Witness ==
    /\ InDashboard /\ m.focus = focusNotes
    /\ m.notes.State = "NoteStateCreate" /\ m.notes.TextInput # <<>>
    /\ m.todo = todoNew(loadTasks(todoFile))


\* C17: in Dashboard every clock TickMsg reaches the calendar panel's clock,
\* which takes the current time, and the next Tick is started, so that one
\* Tick stays in flight, whatever the focus and the states of the task and
\* notes panels
C17_PassiveMessagesDelivered ==
    [][(InDashboard /\ ClockTickMsg)
          => /\ m'.calendar.clock.Time = now
             /\ clockTicks' = clockTicks]_vars


LeftPress(x, y) ==
    [type |-> "MouseMsg", X |-> x, Y |-> y, Action |-> "MouseActionPress",
     Button |-> "MouseButtonLeft"]

Confirms == {"enter", "ctrl+s"}

\* C19: a confirm key in Adding returns the task panel to Default; with a
\* non-empty text t the list becomes the old list followed by the one task
\* {title t, description "", done false} and the task file holds that list;
\* with an empty text the list is unchanged
C19_AddAppendsOneTask ==
    [][\A key \in Confirms :
          (InDashboard /\ m.todo.State = "ListStateAdding" /\ KeyMsg(key))
             => /\ m'.todo.State = "ListStateDefault"
                /\ m.todo.TextInput # <<>> =>
                      /\ m'.todo.Items =
                            Append(m.todo.Items,
                                   [Title |-> m.todo.TextInput,
                                    Description |-> <<>>, Done |-> FALSE])
                      /\ loadTasks(todoFile') = m'.todo.Items
                /\ m.todo.TextInput = <<>> => m'.todo.Items = m.todo.Items]_vars

\* a task was added behind the task the program started with, and saved
C19_Witness ==
    /\ InDashboard /\ m.todo.State = "ListStateDefault"
    /\ Len(m.todo.Items) = 2
    /\ m.todo.Items[1].Done /\ ~m.todo.Items[2].Done
    /\ m.todo.Items[2].Title # <<>>
    /\ loadTasks(todoFile) = m.todo.Items

\* C20: in Default the edit key leads to Editing exactly when a task is
\* selected, and to nothing on an empty list; a confirm key in Editing
\* returns to Default with the selected task's title replaced by the text,
\* its done flag and description kept, every other task and the length of
\* the list unchanged, and the task file holding the list
C20_EditOverwritesSelectedTitle ==
    /\ []((InDashboard /\ m.focus = focusList /\ m.todo.State = "ListStateDefault")
            => \A r \in KeyResults("i") :
                  /\ r.m.todo.State =
                        IF HasSelection(m.todo.Items, m.todo.Index)
                           THEN "ListStateEditing" ELSE "ListStateDefault"
                  /\ m.todo.Items = <<>> => r.m.todo = m.todo)
    /\ [][\A key \in Confirms :
            (InDashboard /\ m.todo.State = "ListStateEditing" /\ KeyMsg(key))
               => /\ m'.todo.State = "ListStateDefault"
                  /\ Len(m'.todo.Items) = Len(m.todo.Items)
                  /\ HasSelection(m.todo.Items, m.todo.Index)
                  /\ \A j \in 1 .. Len(m.todo.Items) :
                        m'.todo.Items[j] =
                           IF j = m.todo.Index + 1
                              THEN [m.todo.Items[j] EXCEPT !.Title = m.todo.TextInput]
                              ELSE m.todo.Items[j]
                  /\ loadTasks(todoFile') = m'.todo.Items]_vars

\* the second of two tasks is selected, the first was given a new title and
\* is still done, and the list was saved
C20_Witness ==
    /\ InDashboard /\ m.todo.State = "ListStateDefault"
    /\ Len(m.todo.Items) = 2 /\ m.todo.Index = 1
    /\ m.todo.Items[1].Done /\ m.todo.Items[1].Title # <<"e">>
    /\ loadTasks(todoFile) = m.todo.Items


TaskPanelFocused == InDashboard /\ m.focus = focusList
Selection == m.todo.Index + 1
KeyMsgOf(key) == [type |-> "KeyMsg", key |-> key]

\* C21: with the task panel focused, in Default the toggle key negates the
\* done flag of the selected task and of no other, a second toggle restores
\* the list, the delete key removes the selected task and no other, and
\* both write the list to the task file; delete on an empty list changes
\* and writes nothing; in Adding and Editing neither key changes a task
C21_ToggleDeleteOnlyInDefault ==
    /\ []((TaskPanelFocused /\ m.todo.State = "ListStateDefault") =>
            /\ \A r \in KeyResults(" ") :
                  HasSelection(m.todo.Items, m.todo.Index) =>
                     /\ Len(r.m.todo.Items) = Len(m.todo.Items)
                     /\ \A j \in 1 .. Len(m.todo.Items) :
                           r.m.todo.Items[j] =
                              IF j = Selection
                                 THEN [m.todo.Items[j] EXCEPT !.Done = ~@]
                                 ELSE m.todo.Items[j]
                     /\ r.saved
                     /\ Update(r.m, KeyMsgOf(" "), Env(TRUE, TRUE)).m.todo.Items
                           = m.todo.Items
            /\ \A r \in KeyResults("ctrl+d") :
                  IF m.todo.Items = <<>>
                     THEN r.m.todo = m.todo /\ ~r.saved
                     ELSE /\ r.m.todo.Items = RemoveAt(m.todo.Items, Selection)
                          /\ r.saved)
    /\ []((TaskPanelFocused /\ Entering) =>
            \A key \in {" ", "ctrl+d"} : \A r \in KeyResults(key) :
               r.m.todo.Items = m.todo.Items /\ r.m.todo.State = m.todo.State)
    /\ [][\A key \in {" ", "ctrl+d"} :
            (TaskPanelFocused /\ m.todo.State = "ListStateDefault"
               /\ m.todo.Items # <<>> /\ KeyMsg(key))
               => loadTasks(todoFile') = m'.todo.Items /\ todoFile' # todoFile]_vars

\* the second of two tasks, selected, was marked done and saved, and the
\* first is as it was
C21_Witness ==
    /\ TaskPanelFocused /\ m.todo.State = "ListStateDefault"
    /\ Len(m.todo.Items) = 2 /\ m.todo.Index = 1
    /\ m.todo.Items[2].Done /\ m.todo.Items[1] \in { loadTasks(t)[1] : t \in InitTasks }
    /\ loadTasks(todoFile) = m.todo.Items


\* C22: the task file always holds the task list of the panel, task by task
\* in the same order with title, description and done; cancel in Adding or
\* Editing returns to Default with the input cleared, the list as it was,
\* and no write
C22_TaskFileMirrorsList ==
    /\ loadTasks(todoFile) = m.todo.Items
    /\ (TaskPanelFocused /\ Entering) =>
          \A r \in KeyResults("esc") :
             /\ ~r.saved
             /\ r.m.todo.Items = m.todo.Items
             /\ r.m.todo.State = "ListStateDefault"
             /\ r.m.todo.TextInput = <<>>

\* after adding, toggling and deleting: the task the program started with
\* is gone, one added task is done, and another is being typed
C22_Witness ==
    /\ TaskPanelFocused /\ m.todo.State = "ListStateAdding"
    /\ m.todo.TextInput # <<>>
    /\ Len(m.todo.Items) = 1 /\ m.todo.Items[1].Done
    /\ m.todo.Items[1].Title # <<"e">>
    /\ loadTasks(todoFile) = m.todo.Items


\* C23: a confirm with an empty input changes nothing it would have written
\* to: the task list when a task is added or edited, the notes and their
\* files when a note is named, the settings and the token in the setup
\* prompts; and it sets no error
C23_EmptyConfirmIgnored ==
    m.err = "" =>
       \A r \in KeyResults("enter") :
          /\ (TaskPanelFocused /\ Entering /\ m.todo.TextInput = <<>>)
                => (r.m.todo.Items = m.todo.Items /\ r.m.err = "")
          /\ (InDashboard /\ ~Entering /\ m.focus = focusNotes
                /\ m.notes.State = "NoteStateCreate" /\ m.notes.TextInput = <<>>)
                => (r.m.notes.Items = m.notes.Items /\ r.fs = files /\ r.m.err = "")
          /\ (m.state \in {"stateSetupWeather", "stateSetupCalendar"}
                /\ m.setupTextInput = <<>>)
                => (r.m.settings = m.settings /\ r.token = token /\ r.m.err = "")


\* ---- the notes panel
NotesPanelFocused == InDashboard /\ ~Entering /\ m.focus = focusNotes
Naming == m.notes.State = "NoteStateCreate"

\* C24: in Create, the confirm key with a non-empty title t writes "# " + t
\* and a blank body to the file named by the sanitized title, appends the
\* one entry {t, that file} to the list and returns to List; the cancel key
\* returns to List, writes no file and adds no entry
C24_CreateWritesStarterDocument ==
    /\ [][(NotesPanelFocused /\ Naming /\ m.notes.TextInput # <<>> /\ KeyMsg("enter"))
            => LET title == m.notes.TextInput
                   file == sanitizeFilename(title)
               IN  /\ file \in DOMAIN files'
                   /\ files'[file] = <<"#", " ">> \o title \o <<"\n", "\n">>
                   /\ \A f \in DOMAIN files \ {file} :
                         f \in DOMAIN files' /\ files'[f] = files[f]
                   /\ DOMAIN files' = DOMAIN files \cup {file}
                   /\ m'.notes.Items =
                         Append(m.notes.Items, [title |-> title, path |-> file])
                   /\ m'.notes.State = "NoteStateList"]_vars
    /\ []((NotesPanelFocused /\ Naming) =>
            \A r \in KeyResults("esc") :
               /\ r.fs = files
               /\ r.m.notes.Items = m.notes.Items
               /\ r.m.notes.State = "NoteStateList")

\* a note titled with a space was created beside the note found at start:
\* its file is named "-" and holds the starter document
C24_Witness ==
    /\ NotesPanelFocused /\ m.notes.State = "NoteStateList"
    /\ Len(m.notes.Items) = 2
    /\ m.notes.Items[2] = [title |-> <<" ">>, path |-> <<"-">>]
    /\ <<"-">> \in DOMAIN files
    /\ files[<<"-">>] = <<"#", " ", " ", "\n", "\n">>


\* the files the two seed notes are written to
SeedFiles == {sanitizeFilename(welcomeTitle), sanitizeFilename(keybindingsTitle)}

\* this step writes a seed note
SeedsWritten == \E f \in SeedFiles : f \in DOMAIN files' /\ f \notin DOMAIN files

\* this step is a start of the program, whose notes.New loads the note list
LoadsAtStart == quit /\ ~quit'

\* the default-notes flag as the settings file holds it
FlagOnDisk ==
    settingsFile # Missing /\ settingsFile[1].default_notes_created

\* C25: the seed notes are written only by a load that finds no markdown file
\* while the persisted default-notes flag is false, and that load sets the
\* flag; no step resets the flag; a load that finds no markdown file while the
\* flag is true writes nothing. So the seed notes are written at most once.
C25_SeedNotesWrittenOnce ==
    /\ [][SeedsWritten =>
            /\ DOMAIN files = {}
            /\ ~FlagOnDisk
            /\ FlagOnDisk'
            /\ DOMAIN files' = SeedFiles]_vars
    /\ [][FlagOnDisk => FlagOnDisk']_vars
    /\ [][(LoadsAtStart /\ DOMAIN files = {} /\ FlagOnDisk)
            => (files' = files /\ settingsFile' = settingsFile
                /\ m'.notes.Items = <<>>)]_vars

\* the notes were seeded, every note was deleted, and the program was started
\* again on the empty directory
C25_Witness ==
    /\ FlagOnDisk
    /\ DOMAIN files = {}
    /\ ~quit
    /\ m.focus = focusList
    /\ m.notes.Items = <<>>


\* C26: once the callback handler has signalled completion or an error, the
\* callback server does not stay up until its five-minute timeout: while it
\* still serves, the signal is in authComplete or authError for the select of
\* the server goroutine to receive, whichever goroutine runs next.
C26_ServerShutDownOnSignal ==
    (auth.signalled /\ auth.server = "serving")
        => (auth.authComplete + auth.authError > 0)


\* this step is the select of StartAuthFlow and the getConfig after it
Decides == ~auth.decided /\ auth'.decided

\* port is the first port of the range, in range order, that is not taken
FirstFree(port, busy) ==
    \E i \in 1 .. NumPorts :
       /\ portRange[i] = port
       /\ port \notin busy
       /\ \A j \in 1 .. (i - 1) : portRange[j] \in busy

StartString(event) ==
    IF event.Start.DateTime.kind # "empty"
       THEN event.Start.DateTime
       ELSE event.Start.Date

\* the events of a list whose start parses and falls on the day, in order
RECURSIVE EventsOfDay(_, _)
EventsOfDay(events, day) ==
    IF events = <<>> THEN <<>>
    ELSE (IF StartString(Head(events)).kind = "day"
             /\ StartString(Head(events)).day = day
             THEN <<Head(events)>> ELSE <<>>)
         \o EventsOfDay(Tail(events), day)

IsFilenameChar(c) ==
    \/ CharCode(c) = 45
    \/ CharCode(c) \in 48 .. 57
    \/ CharCode(c) \in 65 .. 90
    \/ CharCode(c) \in 97 .. 122

\* a title with its spaces turned into hyphens and every other character
\* that is not allowed in a file name left out; "untitled-note" if none is left
Hyphenated(title) ==
    [i \in 1 .. Len(title) |-> IF title[i] = " " THEN "-" ELSE title[i]]
ExpectedFilename(title) ==
    LET kept == SelectSeq(Hyphenated(title), IsFilenameChar)
    IN  IF kept = <<>>
           THEN <<"u", "n", "t", "i", "t", "l", "e", "d", "-", "n", "o", "t", "e">>
           ELSE kept

\* a file name with its hyphens turned into spaces
Spaced(name) ==
    [i \in 1 .. Len(name) |-> IF name[i] = "-" THEN " " ELSE name[i]]

\* a title without its leading number: one or more digits and the space
\* after them
WithoutNumber(title) ==
    LET n == CHOOSE n \in 0 .. Len(title) :
                /\ \A i \in 1 .. n : CharCode(title[i]) \in 48 .. 57
                /\ n < Len(title) => CharCode(title[n + 1]) \notin 48 .. 57
    IN  IF n > 0 /\ n < Len(title) /\ title[n + 1] = " "
           THEN SubSeq(title, n + 2, Len(title))
           ELSE title

\* the title being typed for a new note, and the file it will be written to
TypedTitle == m.notes.TextInput
Filename == sanitizeFilename(TypedTitle)

\* every title gets a non-empty file name of ASCII letters, digits and
\* hyphens: spaces become hyphens, other characters are removed, and a name
\* left empty becomes "untitled-note"
FilenameIsSafe ==
    /\ Filename # <<>>
    /\ \A i \in 1 .. Len(Filename) : IsFilenameChar(Filename[i])
    /\ Filename = ExpectedFilename(TypedTitle)

\* C29 as stated: every title gets a safe file name, and the title a load
\* shows for a file is the file name with its hyphens replaced by spaces.
C29_TitleIsFilenameWithSpaces ==
    /\ [](NotesPanelFocused /\ Naming => FilenameIsSafe)
    /\ [][LoadsAtStart =>
            \A i \in 1 .. Len(m'.notes.Items) :
               m'.notes.Items[i].title = Spaced(m'.notes.Items[i].path)]_vars

\* C29, amended: every title gets a safe file name, and the title a load
\* shows for a file is the file name with its hyphens replaced by spaces and
\* then a leading number, digits followed by a space, removed.
C29_TitleIsFilenameWithoutNumber ==
    /\ [](NotesPanelFocused /\ Naming => FilenameIsSafe)
    /\ [][LoadsAtStart =>
            \A i \in 1 .. Len(m'.notes.Items) :
               m'.notes.Items[i].title =
                  WithoutNumber(Spaced(m'.notes.Items[i].path))]_vars

\* a note named "1 o" was written to "1-o" and is listed as "o" after the
\* program was started again
C29_Witness ==
    /\ ~quit
    /\ m.notes.State = "NoteStateList"
    /\ <<"1", "-", "o">> \in DOMAIN files
    /\ \E i \in 1 .. Len(m.notes.Items) :
          /\ m.notes.Items[i].path = <<"1", "-", "o">>
          /\ m.notes.Items[i].title = <<"o">>


\* saving and then loading the task list and the calendar cache the program
\* holds gives them back; loading a missing settings file gives Athens with
\* the default-notes flag false, loading a missing cache file an empty cache
TasksAndCacheRoundTrip ==
    /\ loadTasks(saveTasks(m.todo.Items)) = m.todo.Items
    /\ LoadCalendarCache(MarshalCache(m.calendar.cachedEvents))
          = m.calendar.cachedEvents
    /\ LoadSettings(Missing) = Settings(<<"Athens">>, FALSE)
    /\ DOMAIN LoadCalendarCache(Missing) = {}

FetchInitiated(k) ==
    /\ fetchLog' # fetchLog
    /\ fetchLog'[Len(fetchLog')].month = k

\* the time since the last recorded fetch initiation
Elapsed == now - m.calendar.lastFetchTime

\* C31: when the calendar panel is focused and Ready and the selected date
\* changes to a date of a month that is not cached, a fetch of that month is
\* started if and only if the month is not marked in flight and at least the
\* cooldown has elapsed since the last recorded initiation, an elapsed time
\* equal to the cooldown included; when it is started, the month is marked in
\* flight and the initiation time is recorded in the same step
C31_FetchIffCooldownReached ==
    [][\A k \in Months :
          (NavigatedTo(k) /\ ~Cached(k))
             => /\ FetchInitiated(k) <=> (~InFlight(k) /\ Elapsed >= fetchCoolDown)
                /\ FetchInitiated(k)
                      => /\ m'.calendar.fetchingMonths[k]
                         /\ m'.calendar.lastFetchTime = now]_vars

\* C31 with the test of the code: the fetch is started if and only if the
\* month is not marked in flight and more than the cooldown has elapsed
C31_FetchIffCooldownExceeded ==
    [][\A k \in Months :
          (NavigatedTo(k) /\ ~Cached(k))
             => /\ FetchInitiated(k) <=> (~InFlight(k) /\ Elapsed > fetchCoolDown)
                /\ FetchInitiated(k)
                      => /\ m'.calendar.fetchingMonths[k]
                         /\ m'.calendar.lastFetchTime = now]_vars

\* C31: the user stands on a date of a month that is neither cached nor in
\* flight, reached exactly one cooldown after the last fetch was started
C31_Boundary ==
    /\ m.state = "stateDashboard" /\ m.calendar.state = "StateReady"
    /\ ~Cached(MonthKey(Selected)) /\ ~InFlight(MonthKey(Selected))
    /\ pending[MonthKey(Selected)] = 0
    /\ Elapsed = fetchCoolDown
    /\ \E i \in NavFetches : fetchLog[i].t = m.calendar.lastFetchTime


\* C32: any two fetch initiations of one run, the fetch issued when the
\* dashboard is entered included, are at least the cooldown apart, whenever
\* either fetch returns
C32_InitiationsCooldownApart ==
    \A i, j \in 1 .. Len(fetchLog) :
       i < j => fetchLog[j].t - fetchLog[i].t >= fetchCoolDown

\* C32: the fetch issued when the dashboard was entered has returned, and
\* navigation has started the fetch of another month less than one cooldown
\* after it
C32_SecondFetchInsideCooldown ==
    /\ Len(fetchLog) >= 2
    /\ fetchLog[1].by = "Init" /\ fetchLog[2].by = "nav"
    /\ fetchLog[2].t - fetchLog[1].t < fetchCoolDown
    /\ fetchLog[2].month # fetchLog[1].month
    /\ Cached(fetchLog[1].month)


\* the fetch of the month of the selected date is marked in flight and its
\* command has not returned
SelectedInFlight ==
    /\ InFlight(MonthKey(Selected))
    /\ pending[MonthKey(Selected)] > 0

\* C33: while the fetch of the month of the selected date is in flight, the
\* loading indicator stays on: no step that leaves that fetch unresolved, the
\* result of an earlier fetch of another month included, turns it off
C33_LoadingStaysOn ==
    [][(SelectedInFlight /\ m.calendar.loading /\ SelectedInFlight')
          => m'.calendar.loading]_vars

\* C33: the month of the selected date is being fetched, the fetch of another
\* month started earlier has returned meanwhile, and the loading indicator is
\* off
C33_LoadingOffWhileInFlight ==
    /\ m.state = "stateDashboard" /\ m.calendar.state = "StateReady"
    /\ SelectedInFlight
    /\ ~m.calendar.loading
    /\ fetchLog[Len(fetchLog)].month = MonthKey(Selected)
    /\ \E i \in NavFetches :
          /\ fetchLog[i].month # MonthKey(Selected)
          /\ Cached(fetchLog[i].month)


\* C34: once every background SaveCalendarCache that was started has
\* finished, the cache file holds the cache of the panel, so that no fetched
\* month is missing on disk, however the overlapping writes interleave
C34_CacheFileCatchesUp ==
    (~quit /\ savers = <<>>)
       => LoadCalendarCache(cacheFile) = m.calendar.cachedEvents

\* C34: two months were fetched in this run, both background writes have
\* finished, and the month that arrived last is cached but not in the file
C34_FetchedMonthMissingOnDisk ==
    /\ ~quit /\ savers = <<>>
    /\ \E j, k \in Months :
          /\ j # k
          /\ Cached(j) /\ Cached(k)
          /\ j \in DOMAIN LoadCalendarCache(cacheFile)
          /\ k \notin DOMAIN LoadCalendarCache(cacheFile)
          /\ \E a, b \in 1 .. Len(fetchLog) :
                a < b /\ fetchLog[a].month = j /\ fetchLog[b].month = k

\* C35: no background task reads memory that the main loop changes: while a
\* goroutine of SaveCalendarCache reads the cache map, the main loop stores
\* no fetch result into it
C35_NoStoreWhileMapIsRead ==
    [][(\E i \in 1 .. Len(savers) : savers[i].pc = "reading")
          => m'.calendar.cachedEvents = m.calendar.cachedEvents]_vars

\* C35: a background writer was reading the cache map when the main loop
\* stored the events of another month into it
C35_MapReadDuringStore ==
    \E i \in 1 .. Len(savers) :
       /\ savers[i].pc = "reading"
       /\ savers[i].raced
       /\ Cardinality(savers[i].seen) = 2


\* a goroutine blocked in WaitForAuth receives the completion that
\* handleOAuthCallback sent after it saved the token
WaiterReceivesCompletion ==
    /\ token
    /\ auth.waiters > 0 /\ auth'.waiters = auth.waiters - 1
    /\ auth.authComplete = 1 /\ auth'.authComplete = 0
    /\ auth'.server = auth.server

\* the step put a message on its way to the main loop
MessagePosted ==
    \/ \E k \in Months : pending'[k] > pending[k]
    \/ editMsgs' # editMsgs
    \/ clockTicks' > clockTicks

\* C36: in the automatic flow, once the callback handler has saved the token
\* and signalled completion, the waiter that receives the completion posts a
\* message into the main loop, on which the top-level state leaves
\* SetupCalendar for Dashboard without user input
C36_WaiterPostsMessage ==
    [][WaiterReceivesCompletion => MessagePosted]_vars

\* the setup still shows although the token is saved and the waiter has
\* received the completion and returned
C36_WaiterReturnedSilently ==
    /\ token /\ ~manual /\ auth.signalled
    /\ auth.waiters = 0 /\ auth.authComplete = 0 /\ auth.server = "serving"
    /\ m.state = "stateSetupCalendar"
    /\ \A k \in Months : pending[k] = 0

\* the automatic flow with the messages that arrive without user input: the
\* cursor blink of the setup input, which updateSetupCalendar keeps going
NextAuthQuiet ==
    \/ tryStartCallbackServer
    \/ StartAuthFlow
    \/ auth.decided /\ ~token /\ KeyMsg("ctrl+o")
    \/ handleOAuthCallback
    \/ ServerReceive
    \/ WaitForAuth
    \/ auth.decided /\ BlinkMsg

SpecAuthQuiet ==
    /\ InitAuthFlow
    /\ [][NextAuthQuiet]_vars
    /\ WF_vars(auth.decided /\ BlinkMsg)

\* once the token is saved, the next message that reaches updateSetupCalendar,
\* a cursor blink included, enters the dashboard and issues the initial fetch
C36_NextMessageEntersDashboard ==
    (token /\ m.state = "stateSetupCalendar")
       ~> (m.state = "stateDashboard" /\ pending[MonthKey(today)] > 0)


\* the editor as updateDashboard leaves it on the note-open event e: preview
\* mode, the path of the event, its content in the editor, as the content to
\* display and as the snapshot, nothing unsaved, and the notes panel as it was
OpenedInPreview(e) ==
    /\ m'.state = "stateEditingNote"
    /\ m'.noteEditorMode = "notePreviewMode"
    /\ m'.editingNotePath = e.Path
    /\ m'.noteEditor = e.Content
    /\ m'.noteContent = e.Content
    /\ m'.originalContent = e.Content
    /\ ~m'.hasUnsavedChanges
    /\ m'.notes.State = "NoteStateList"
    /\ m'.notes.Items = m.notes.Items

\* C37: on a note-open event received in Dashboard, the top-level state
\* becomes EditingNote in preview mode with the editing path of the event, the
\* editor content, the displayed content and the snapshot equal to the content
\* of the event and the unsaved-changes flag false; the notes panel stays in
\* List with its list unchanged
C37_NoteOpenEntersEditor ==
    [][\A e \in editMsgs :
          (m.state = "stateDashboard" /\ EditNoteMsg(e)) => OpenedInPreview(e)]_vars

\* C37 for the events that arrive while the task panel is neither Adding nor
\* Editing
C37_NoteOpenOutsideTaskEntry ==
    [][\A e \in editMsgs :
          (m.state = "stateDashboard" /\ ~todoTakesText(m.todo) /\ EditNoteMsg(e))
             => OpenedInPreview(e)]_vars

\* C37: a note-open event is on its way while the dashboard shows and the
\* task panel is editing a task
C37_NoteOpenDuringTaskEntry ==
    /\ m.state = "stateDashboard"
    /\ editMsgs # {}
    /\ m.todo.State = "ListStateEditing"
    /\ m.notes.State = "NoteStateList"


\* View shows the date picker and the daily events: the panel is Ready, no
\* error is recorded and the loading indicator is off
ShowsEvents ==
    /\ m.calendar.state = "StateReady"
    /\ m.calendar.err = ""
    /\ ~m.calendar.loading

\* C38: whenever the calendar panel is Ready and does not show the loading
\* indicator, the displayed daily events are the cached events of the month
\* of the selected date on that date, and none when that month is not cached;
\* events of a date selected before are never shown for the current one
C38_DisplayedEventsAreCurrent ==
    ShowsEvents =>
       m.calendar.events =
          IF Cached(MonthKey(Selected))
             THEN EventsOfDay(m.calendar.cachedEvents[MonthKey(Selected)], Selected)
             ELSE <<>>

\* C38: the selected date lies in a month that is not cached, the loading
\* indicator is off, and the panel shows an event of another date
C38_StaleEventsShown ==
    /\ ShowsEvents
    /\ ~Cached(MonthKey(Selected))
    /\ \E i \in 1 .. Len(m.calendar.events) :
          /\ ParseOk(StartString(m.calendar.events[i]))
          /\ StartString(m.calendar.events[i]).day # Selected


\* the entries of the notes list whose file is p
EntriesOf(p) == {i \in 1 .. Len(m.notes.Items) : m.notes.Items[i].path = p}

\* C39: creating a note never overwrites or aliases an existing note: after
\* any creations and deletions, distinct entries of the notes list have
\* distinct file paths, the file of every entry exists, and every file of the
\* notes directory has exactly one entry
C39_NotesListMatchesDirectory ==
    /\ \A i, j \in 1 .. Len(m.notes.Items) :
          i # j => m.notes.Items[i].path # m.notes.Items[j].path
    /\ \A i \in 1 .. Len(m.notes.Items) : m.notes.Items[i].path \in DOMAIN files
    /\ \A p \in DOMAIN files : Cardinality(EntriesOf(p)) = 1

\* C39: two entries of the list name the same file
C39_TwoEntriesOneFile ==
    /\ m.notes.State = "NoteStateList"
    /\ \E p \in DOMAIN files : Cardinality(EntriesOf(p)) = 2

\* C39: an entry is listed whose file was removed when the other entry of
\* the same path was deleted
C39_EntryWithoutFile ==
    /\ m.notes.State = "NoteStateList"
    /\ Len(m.notes.Items) = 1
    /\ m.notes.Items[1].path \notin DOMAIN files


\* the dashboard has been entered: the top-level state is Dashboard,
\* EditingNote or ExitConfirmation
DashboardEntered ==
    m.state \in {"stateDashboard", "stateEditingNote", "stateExitConfirmation"}

\* C40: once the dashboard has been entered, the one-second tick chain of the
\* clock is never broken: in every state a clock tick is pending, each tick
\* that is processed having started the next, whatever note editing, exit
\* confirmation and task entry took place
C40_ClockChainUnbroken ==
    (DashboardEntered /\ ~quit) => clockTicks > 0

\* C40: the dashboard shows with the task panel back in its list after a
\* task entry, and no clock tick is pending
C40_ClockStopped ==
    /\ m.state = "stateDashboard" /\ ~quit
    /\ m.todo.State = "ListStateDefault"
    /\ clockTicks = 0

====
